---- MODULE Spec2Model ----
(***************************************************************************)
(* A model of xf (src/main.c): the tokenizer (parse_op, parse_main), the   *)
(* evaluator (eval_op, eval_line) and the three threads of the X11 mode:   *)
(* the line reader (parse_main), the X event reader (ui_main) and the      *)
(* main thread that reads the pipe, rebuilds the action list, hit-tests    *)
(* button presses and paints.                                              *)
(*                                                                         *)
(* A C string is a sequence of one-character strings; a buffer is such a   *)
(* sequence with NUL entries where the code has '\0'.                      *)
(***************************************************************************)
EXTENDS Integers, Sequences, FiniteSets, TLC

(***************************************************************************)
(* Characters                                                              *)
(***************************************************************************)
NUL == "NUL"
NL  == "\n"
FF  == "\f"
TAB == "\t"
VT  == "VT"

RECURSIVE StrCSpn(_, _, _)
\* strcspn(buf + p, c): the number of characters before the first c or NUL
StrCSpn(buf, p, c) ==
    IF buf[p] = NUL \/ buf[p] = c THEN 0 ELSE 1 + StrCSpn(buf, p + 1, c)

\* the C string that starts at buf[p]
CStr(buf, p) == SubSeq(buf, p, p + StrCSpn(buf, p, NUL) - 1)

(***************************************************************************)
(* op_name: the command table                                              *)
(***************************************************************************)
OpNames ==
    { <<<<"c","a">>, "OP_CA">>,
      <<<<"b","g">>, "OP_BG">>,
      <<<<"f","g">>, "OP_FG">>,
      <<<<"f","o","n","t">>, "OP_FONT">>,
      <<<<"d","i","r">>, "OP_DIR">>,
      <<<<"w","r","a","p">>, "OP_WRAP">>,
      <<<<"e","l","l","i","p","s","i","z","e">>, "OP_ELLIPSIZE">>,
      <<<<"j","u","s","t","i","f","y","-","c","o","n","t","e","n","t">>, "OP_JUSTIFY_CONTENT">>,
      <<<<"a","l","i","g","n","-","i","t","e","m","s">>, "OP_ALIGN_ITEMS">>,
      <<<<"a","l","i","g","n","-","s","e","l","f">>, "OP_ALIGN_SELF">>,
      <<<<"g","r","o","w">>, "OP_GROW">>,
      <<<<"s","h","r","i","n","k">>, "OP_SHRINK">>,
      <<<<"o","r","d","e","r">>, "OP_ORDER">>,
      <<<<"b","a","s","i","s">>, "OP_BASIS">>,
      <<<<"l","i","n","e","-","c","a","p">>, "OP_LINE_CAP">>,
      <<<<"l","i","n","e","-","j","o","i","n">>, "OP_LINE_JOIN">>,
      <<<<"l","i","n","e","-","o","f","f","s","e","t">>, "OP_LINE_OFFSET">>,
      <<<<"l","i","n","e","-","w","i","d","t","h">>, "OP_LINE_WIDTH">>,
      <<<<"m","i","t","e","r","-","l","i","m","i","t">>, "OP_MITER_LIMIT">>,
      <<<<"i","m","g">>, "OP_IMG">>,
      <<<<"r","u","l","e">>, "OP_RULE">>,
      <<<<"m","a","r","k","u","p">>, "OP_MARKUP">>,
      <<<<"t","e","x","t">>, "OP_TEXT">> }

\* op_name(name): the op type, or "exit" where the code calls exit(1)
op_name(name) ==
    IF \E e \in OpNames : e[1] = name
    THEN (CHOOSE e \in OpNames : e[1] = name)[2]
    ELSE "exit"

(***************************************************************************)
(* parse_op: one token from buf at p.  res is "null" for a NULL return,    *)
(* "exit" for exit(1), "ok" otherwise; buf is the buffer as the call       *)
(* leaves it, p the returned pointer, arg the caller's *arg.               *)
(***************************************************************************)
RECURSIVE parse_op(_, _, _)
parse_op(buf, p, arg) ==
    LET c == buf[p]
        ret(res, q, op, a, b) ==
            [res |-> res, p |-> q, op |-> op, arg |-> a, buf |-> b]
    IN  CASE c = NUL -> ret("null", p, "none", arg, buf)
          [] c = NL  -> ret("ok", p, "OP_TEXT", arg, [buf EXCEPT ![p] = NUL])
          [] c \in {"{", "}"} ->
                IF arg < p
                THEN ret("ok", p, "OP_TEXT", arg, buf)
                ELSE ret("ok", p + 1, IF c = "{" THEN "OP_OPEN" ELSE "OP_CLOSE", arg, buf)
          [] c = "^" ->
                IF arg < p
                THEN ret("ok", p, "OP_TEXT", arg, buf)
                ELSE LET tmp  == p + 1
                         q    == tmp + StrCSpn(buf, tmp, "{")
                         buf1 == [buf EXCEPT ![q] = NUL]
                         a    == q + 1
                         r    == a + StrCSpn(buf1, a, "}")
                     IN  IF buf[q] = NUL
                         THEN ret("exit", q, "none", arg, buf)
                         ELSE IF op_name(CStr(buf1, tmp)) = "exit"
                         THEN ret("exit", q, "none", arg, buf1)
                         ELSE IF buf1[r] = NUL
                         THEN ret("exit", r, op_name(CStr(buf1, tmp)), a, buf1)
                         ELSE ret("ok", r + 1, op_name(CStr(buf1, tmp)), a,
                                  [buf1 EXCEPT ![r] = NUL])
          [] c \in {FF, TAB, VT} -> parse_op([buf EXCEPT ![p] = " "], p + 1, arg)
          [] OTHER -> parse_op(buf, p + 1, arg)

\* the struct op that parse_main stores for a parse_op result r: for OP_TEXT
\* the argument ends where parse_op stopped, otherwise at the next NUL
StoredOp(r) ==
    [type |-> r.op,
     arg  |-> IF r.op = "OP_TEXT"
              THEN CStr([r.buf EXCEPT ![r.p] = NUL], r.arg)
              ELSE CStr(r.buf, r.arg)]

\* sizeof buf in parse_main; the program's value is 8192, scaled down here
MAX_LINE_LEN == 80

\* fgets(buf, sizeof buf, stdin) on an input line: at most sizeof buf - 1
\* characters of it, followed by a NUL
fgets(line) ==
    IF Len(line) <= MAX_LINE_LEN - 1
    THEN Append(line, NUL)
    ELSE Append(SubSeq(line, 1, MAX_LINE_LEN - 1), NUL)

\* buf after fgets and buf[sizeof buf - 1] = 'x': the buffer up to its
\* terminator; a store past the terminator is not part of the string, a
\* store onto the terminator (a full buffer) leaves the string unterminated
LineBuf(line) ==
    IF Len(fgets(line)) = MAX_LINE_LEN
    THEN [fgets(line) EXCEPT ![MAX_LINE_LEN] = "x"]
    ELSE fgets(line)

\* the test after the store: buf[sizeof buf - 1] == '\0' && buf[sizeof buf - 2] != '\n'
Overflow(buf) ==
    /\ Len(buf) = MAX_LINE_LEN
    /\ buf[MAX_LINE_LEN] = NUL
    /\ buf[MAX_LINE_LEN - 1] # NL

\* whether buf holds a terminated string
Terminated(buf) == \E i \in 1..Len(buf) : buf[i] = NUL

\* what parse_op may find in the bytes after an unterminated buf
Beyond == { <<NUL>>, <<"}", NUL>> }

RECURSIVE TokenizeFrom(_, _, _)
\* the inner loop of parse_main from p on, with the ops stored so far; r is
\* the result of this iteration's parse_op call and o the ops stored so
\* far, both taken as values
TokenizeFrom(buf, p, ops) ==
    CHOOSE out \in
        { CASE r.res = "null" -> [res |-> "ok", ops |-> o]
            [] r.res = "exit" -> [res |-> "exit", ops |-> o]
            [] OTHER -> TokenizeFrom(r.buf, r.p, Append(o, StoredOp(r)))
          : r \in {parse_op(buf, p, p)}, o \in {ops} } : TRUE

\* the token buffer that parse_main builds from one line
Tokenize(line) == TokenizeFrom(LineBuf(line), 1, <<>>)

(***************************************************************************)
(* The name tables of ellipsize_name, dir_name, wrap_name,                 *)
(* justify_content_name, align_name, line_cap_name and line_join_name      *)
(***************************************************************************)
EllipsizeNames ==
    { <<<<"n","o","n","e">>, "PANGO_ELLIPSIZE_NONE">>,
      <<<<"s","t","a","r","t">>, "PANGO_ELLIPSIZE_START">>,
      <<<<"m","i","d","d","l","e">>, "PANGO_ELLIPSIZE_MIDDLE">>,
      <<<<"e","n","d">>, "PANGO_ELLIPSIZE_END">> }

DirNames ==
    { <<<<"r","o","w">>, "FLEX_DIRECTION_ROW">>,
      <<<<"r","o","w","-","r","e","v">>, "FLEX_DIRECTION_ROW_REVERSE">>,
      <<<<"c","o","l">>, "FLEX_DIRECTION_COLUMN">>,
      <<<<"c","o","l","-","r","e","v">>, "FLEX_DIRECTION_COLUMN_REVERSE">> }

WrapNames ==
    { <<<<"n","o","-","w","r","a","p">>, "FLEX_WRAP_NO_WRAP">>,
      <<<<"w","r","a","p">>, "FLEX_WRAP_WRAP">>,
      <<<<"w","r","a","p","-","r","e","v">>, "FLEX_WRAP_WRAP_REVERSE">> }

JustifyContentNames ==
    { <<<<"s","t","a","r","t">>, "FLEX_ALIGN_START">>,
      <<<<"e","n","d">>, "FLEX_ALIGN_END">>,
      <<<<"c","e","n","t","e","r">>, "FLEX_ALIGN_CENTER">>,
      <<<<"s","p","a","c","e","-","b","e","t","w","e","e","n">>, "FLEX_ALIGN_SPACE_BETWEEN">>,
      <<<<"s","p","a","c","e","-","a","r","o","u","n","d">>, "FLEX_ALIGN_SPACE_AROUND">>,
      <<<<"s","p","a","c","e","-","e","v","e","n","l","y">>, "FLEX_ALIGN_SPACE_EVENLY">> }

AlignNames ==
    { <<<<"a","u","t","o">>, "FLEX_ALIGN_AUTO">>,
      <<<<"s","t","a","r","t">>, "FLEX_ALIGN_START">>,
      <<<<"e","n","d">>, "FLEX_ALIGN_END">>,
      <<<<"c","e","n","t","e","r">>, "FLEX_ALIGN_CENTER">>,
      <<<<"s","t","r","e","t","c","h">>, "FLEX_ALIGN_STRETCH">> }

LineCapNames ==
    { <<<<"b","u","t","t">>, "CAIRO_LINE_CAP_BUTT">>,
      <<<<"r","o","u","n","d">>, "CAIRO_LINE_CAP_ROUND">>,
      <<<<"s","q","u","a","r","e">>, "CAIRO_LINE_CAP_SQUARE">> }

LineJoinNames ==
    { <<<<"m","i","t","e","r">>, "CAIRO_LINE_JOIN_MITER">>,
      <<<<"r","o","u","n","d">>, "CAIRO_LINE_JOIN_ROUND">>,
      <<<<"b","e","v","e","l">>, "CAIRO_LINE_JOIN_BEVEL">> }

\* the linear search each of these functions does: the value of the first
\* entry whose name is strcmp-equal, or "exit" where the code calls exit(1)
NameLookup(table, name) ==
    IF \E e \in table : e[1] = name
    THEN (CHOOSE e \in table : e[1] = name)[2]
    ELSE "exit"

ellipsize_name(name)       == NameLookup(EllipsizeNames, name)
\* every direction name taken for row
dir_name_row(name)         == "FLEX_DIRECTION_ROW"

dir_name(name)             == NameLookup(DirNames, name)
wrap_name(name)            == NameLookup(WrapNames, name)
justify_content_name(name) == NameLookup(JustifyContentNames, name)
align_name(name)           == NameLookup(AlignNames, name)
line_cap_name(name)        == NameLookup(LineCapNames, name)
line_join_name(name)       == NameLookup(LineJoinNames, name)

(***************************************************************************)
(* Numbers.  strtof and strtol are modelled on decimal integers: leading   *)
(* spaces, an optional sign, then digits.  x is the value converted and e  *)
(* the index of the first character not converted (1 when nothing is).     *)
(***************************************************************************)
DecDigits == <<"0","1","2","3","4","5","6","7","8","9">>

IsDigit(c) == \E k \in 1..Len(DecDigits) : DecDigits[k] = c

DigitVal(c) == (CHOOSE k \in 1..Len(DecDigits) : DecDigits[k] = c) - 1

RECURSIVE SkipSpaces(_, _)
SkipSpaces(s, i) ==
    IF i <= Len(s) /\ s[i] = " " THEN SkipSpaces(s, i + 1) ELSE i

RECURSIVE DigitRun(_, _)
\* the number of decimal digits of s from index i on
DigitRun(s, i) ==
    IF i <= Len(s) /\ IsDigit(s[i]) THEN 1 + DigitRun(s, i + 1) ELSE 0

RECURSIVE DecValue(_, _, _, _)
\* the value of the n digits of s from index i on, after acc
DecValue(s, i, n, acc) ==
    IF n = 0 THEN acc ELSE DecValue(s, i + 1, n - 1, acc * 10 + DigitVal(s[i]))

StrToNum(s) ==
    LET b    == SkipSpaces(s, 1)
        sgn  == b <= Len(s) /\ s[b] \in {"-", "+"}
        d    == IF sgn THEN b + 1 ELSE b
        n    == DigitRun(s, d)
        v    == DecValue(s, d, n, 0)
    IN  IF n = 0
        THEN [x |-> 0, e |-> 1]
        ELSE [x |-> IF sgn /\ s[b] = "-" THEN 0 - v ELSE v, e |-> d + n]

\* flex_strtof(s, min, INFINITY): an invalid argument is reported on stderr
\* and then used; only an out-of-range value ends the process
flex_strtof(s, min) ==
    LET r == StrToNum(s)
    IN  IF r.x < min THEN [res |-> "exit", x |-> r.x] ELSE [res |-> "ok", x |-> r.x]

\* flex_strtoi(s, min, INT_MAX)
flex_strtoi(s, min) ==
    LET r == StrToNum(s)
    IN  IF r.x < min THEN [res |-> "exit", x |-> r.x] ELSE [res |-> "ok", x |-> r.x]

\* xf_strtod(s, min, INFINITY)
xf_strtod(s, min) == flex_strtof(s, min)

(***************************************************************************)
(* Colours.  A struct rgba is modelled by its four channels as bytes: the  *)
(* float the code stores is the byte divided by 255.                       *)
(***************************************************************************)
HexDigits == <<"0","1","2","3","4","5","6","7","8","9","a","b","c","d","e","f">>

HexUpper == <<"0","1","2","3","4","5","6","7","8","9","A","B","C","D","E","F">>

IsHex(c) == \E k \in 1..16 : HexDigits[k] = c \/ HexUpper[k] = c

HexVal(c) == (CHOOSE k \in 1..16 : HexDigits[k] = c \/ HexUpper[k] = c) - 1

RECURSIVE HexRun(_, _)
\* the number of hex digits of s from index i on
HexRun(s, i) ==
    IF i <= Len(s) /\ IsHex(s[i]) THEN 1 + HexRun(s, i + 1) ELSE 0

RECURSIVE HexValue(_, _, _, _)
HexValue(s, i, n, acc) ==
    IF n = 0 THEN acc ELSE HexValue(s, i + 1, n - 1, acc * 16 + HexVal(s[i]))

\* the hex digits of an unsigned long: 16 where long has 64 bits
ULongDigits == 16

RECURSIVE LeadingZeros(_, _)
\* the number of '0' characters of s from index i on
LeadingZeros(s, i) ==
    IF i <= Len(s) /\ s[i] = "0" THEN 1 + LeadingZeros(s, i + 1) ELSE 0

\* strtoul returns ULONG_MAX for the nd hex digits of t: the value is
\* ULONG_MAX or does not fit
IsUlongMax(t, nd) ==
    LET z == LeadingZeros(t, 1)
    IN  \/ nd - z > ULongDigits
        \/ nd - z = ULongDigits /\ \A i \in (z + 1)..nd : HexVal(t[i]) = 15

\* n & (0xf << 4k)
NibbleAt(n, k) == ((n \div (16 ^ k)) % 16) * (16 ^ k)

\* an unsigned long of at most 32 bits is kept as its two 16-bit halves,
\* so that no intermediate value leaves the checker's integer range
Word(n) == [hi |-> n \div 65536, lo |-> n % 65536]

\* the shift without the implicit alpha
ShiftOnly(v) ==
    [hi |-> (v.hi * 256 + v.lo \div 256) % 65536, lo |-> (v.lo % 256) * 256]

\* n <<= 8; n |= 0xff
ShiftAlpha(v) ==
    [hi |-> (v.hi * 256 + v.lo \div 256) % 65536, lo |-> (v.lo % 256) * 256 + 255]

\* the struct rgba returned for the 32-bit value v
RgbaOf(v) == <<v.hi \div 256, v.hi % 256, v.lo \div 256, v.lo % 256>>

\* the colour names pango_color_parse knows, as far as the model uses them
NamedColors ==
    { <<<<"r","e","d">>, <<255, 0, 0, 255>>>>,
      <<<<"g","r","e","e","n">>, <<0, 128, 0, 255>>>>,
      <<<<"b","l","u","e">>, <<0, 0, 255, 255>>>>,
      <<<<"w","h","i","t","e">>, <<255, 255, 255, 255>>>>,
      <<<<"b","l","a","c","k">>, <<0, 0, 0, 255>>>> }

parse_color(s) ==
    IF Len(s) = 0 \/ s[1] # "#"
    THEN IF \E e \in NamedColors : e[1] = s
         THEN [res |-> "ok", c |-> (CHOOSE e \in NamedColors : e[1] = s)[2]]
         ELSE [res |-> "exit", c |-> <<>>]
    ELSE LET t  == Tail(s)
             nd == HexRun(t, 1)
             n  == HexValue(t, 1, nd, 0)
             n3 == NibbleAt(n, 2) * 4352 + NibbleAt(n, 1) * 272 + NibbleAt(n, 0) * 17
             n8 == [hi |-> HexValue(t, 1, 4, 0), lo |-> HexValue(t, 5, 4, 0)]
         IN  IF IsUlongMax(t, nd) \/ nd # Len(t) THEN [res |-> "exit", c |-> <<>>]
             ELSE CASE nd = 3 -> [res |-> "ok", c |-> RgbaOf(ShiftAlpha(Word(n3)))]
                    [] nd = 6 -> [res |-> "ok", c |-> RgbaOf(ShiftAlpha(Word(n)))]
                    [] nd = 8 -> [res |-> "ok", c |-> RgbaOf(n8)]
                    [] OTHER  -> [res |-> "exit", c |-> <<>>]

(***************************************************************************)
(* Flex items.  The tree is the sequence of the items added so far, each   *)
(* with the index of its parent (0: no parent).  NAN is the float NaN,     *)
(* which no accepted argument produces.                                    *)
(***************************************************************************)
NAN == -1

\* a pointer is modelled as a sequence: <<>> is NULL, <<v>> points to v
NULL == <<>>

\* flex_item_new(): an item with the library's defaults
FlexItemNew ==
    [parent |-> 0, width |-> NAN, height |-> NAN,
     grow |-> 0, shrink |-> 1, order |-> 0, basis |-> NAN,
     align_self |-> "FLEX_ALIGN_AUTO",
     margin |-> 0, padding |-> 0,
     direction |-> "FLEX_DIRECTION_COLUMN", wrap |-> "FLEX_WRAP_NO_WRAP",
     justify_content |-> "FLEX_ALIGN_START",
     align_items |-> "FLEX_ALIGN_STRETCH", align_content |-> "FLEX_ALIGN_STRETCH"]

\* the geometry of an action that this rebuild has not assigned yet
StaleGeom    == [x |-> -1, y |-> -1, w |-> -1, h |-> -1]
StaleOutline == [t |-> -1, r |-> -1, b |-> -1, l |-> -1, w |-> -1, h |-> -1]

\* what the text-shaping library reports for a string: one pixel per
\* character, and the font's height
TextWidth(str) == Len(str)
FontHeight == 1

\* the size of a decoded image
ImageSize == 1

\* ext(file) as op_img uses it: the characters after the last '.'
\* must spell a known format, and op_img takes only png
RECURSIVE LastDot(_, _)
LastDot(file, i) ==
    IF i = 0 THEN 0 ELSE IF file[i] = "." THEN i ELSE LastDot(file, i - 1)

ext(file) ==
    LET d == LastDot(file, Len(file))
        e == SubSeq(file, d + 1, Len(file))
    IN  IF d = 0 THEN "exit"
        ELSE CASE e = <<"p","d","f">> -> "FMT_PDF"
               [] e = <<"p","n","g">> -> "FMT_PNG"
               [] e = <<"s","v","g">> -> "FMT_SVG"
               [] OTHER -> "exit"

\* op_img, op_rule, op_text: the action's type and paint data, and the new
\* item with its intrinsic size
op_img(file, margin, padding) ==
    [res  |-> IF ext(file) = "FMT_PNG" THEN "item" ELSE "exit",
     act  |-> [type |-> "ACT_IMG", u |-> [img |-> file]],
     item |-> [FlexItemNew EXCEPT !.width  = ImageSize + padding * 2,
                                  !.height = ImageSize + padding * 2]]

op_rule(state) ==
    [res  |-> "item",
     act  |-> [type |-> "ACT_RULE",
               u |-> [fg |-> state.fg, line_cap |-> state.line_cap,
                      line_join |-> state.line_join,
                      line_offset |-> state.line_offset,
                      line_width |-> state.line_width,
                      miter_limit |-> state.miter_limit]],
     item |-> [FlexItemNew EXCEPT !.width  = FontHeight + state.padding * 2,
                                  !.height = FontHeight + state.padding * 2]]

op_text(str, state, f) ==
    [res  |-> "item",
     act  |-> [type |-> "ACT_TEXT",
               u |-> [desc |-> state.desc, e |-> state.e, fg |-> state.fg,
                      f |-> f, s |-> str]],
     item |-> [FlexItemNew EXCEPT !.width  = TextWidth(str) + state.padding * 2,
                                  !.height = FontHeight + state.padding * 2]]

(***************************************************************************)
(* eval_op.  res is "null" for a NULL return, "item" when an item is       *)
(* returned, "exit" for exit(1).  state and tree are as the call leaves    *)
(* them; act is what the call writes to the action slot b.                 *)
(***************************************************************************)
NoAct == [type |-> "none", u |-> <<>>]

\* a container created without a size
OpenItemUnsized(state, tree) == FlexItemNew

\* the item OP_OPEN creates: a new item with the width and the height of
\* the current container
OpenItem(state, tree) ==
    [FlexItemNew EXCEPT !.width  = tree[state.root].width,
                        !.height = tree[state.root].height]

\* OP_RULE with no test of the staged click name
RuleRefusedNever(state) == FALSE

\* the test OP_RULE makes before creating the rule: a click name is staged
RuleRefused(state) == state.ca_name # NULL

eval_op(state, op, tree) ==
    LET null(st, tr) ==
            [res |-> "null", state |-> st, tree |-> tr, item |-> FlexItemNew, act |-> NoAct]
        fatal ==
            [res |-> "exit", state |-> state, tree |-> tree, item |-> FlexItemNew, act |-> NoAct]
        leaf(st, r) ==
            [res |-> r.res, state |-> st, tree |-> tree, item |-> r.item, act |-> r.act]
        name(v, st) == IF v = "exit" THEN fatal ELSE null(st, tree)
        root(v, tr) == IF v = "exit" THEN fatal ELSE null(state, tr)
        num(r, st)  == IF r.res = "exit" THEN fatal ELSE null(st, tree)
        t == op.type
    IN  CASE t = "OP_OPEN" ->
                [res |-> "item", state |-> state, tree |-> tree, act |-> NoAct,
                 item |-> OpenItem(state, tree)]
          [] t = "OP_CLOSE" ->
                IF tree[state.root].parent = 0
                THEN fatal
                ELSE null([state EXCEPT !.root = tree[state.root].parent], tree)
          [] t = "OP_CA" -> null([state EXCEPT !.ca_name = <<op.arg>>], tree)
          [] t = "OP_BG" ->
                LET c == parse_color(op.arg)
                IN  IF c.res = "exit" THEN fatal ELSE null([state EXCEPT !.bg = c.c], tree)
          [] t = "OP_FG" ->
                LET c == parse_color(op.arg)
                IN  IF c.res = "exit" THEN fatal ELSE null([state EXCEPT !.fg = c.c], tree)
          [] t = "OP_FONT" -> null([state EXCEPT !.desc = op.arg], tree)
          [] t = "OP_ELLIPSIZE" ->
                name(ellipsize_name(op.arg), [state EXCEPT !.e = ellipsize_name(op.arg)])
          [] t = "OP_DIR" ->
                root(dir_name(op.arg),
                     [tree EXCEPT ![state.root].direction = dir_name(op.arg)])
          [] t = "OP_WRAP" ->
                root(wrap_name(op.arg),
                     [tree EXCEPT ![state.root].wrap = wrap_name(op.arg)])
          [] t = "OP_JUSTIFY_CONTENT" ->
                root(justify_content_name(op.arg),
                     [tree EXCEPT ![state.root].justify_content = justify_content_name(op.arg)])
          [] t = "OP_ALIGN_ITEMS" ->
                root(align_name(op.arg),
                     [tree EXCEPT ![state.root].align_items = align_name(op.arg)])
          [] t = "OP_ALIGN_SELF" ->
                name(align_name(op.arg), [state EXCEPT !.align_self = align_name(op.arg)])
          [] t = "OP_SHRINK" ->
                num(flex_strtof(op.arg, 0), [state EXCEPT !.shrink = flex_strtof(op.arg, 0).x])
          [] t = "OP_ORDER" ->
                num(flex_strtoi(op.arg, 0), [state EXCEPT !.order = flex_strtoi(op.arg, 0).x])
          [] t = "OP_GROW" ->
                num(flex_strtof(op.arg, 0), [state EXCEPT !.grow = flex_strtof(op.arg, 0).x])
          [] t = "OP_BASIS" ->
                num(flex_strtof(op.arg, 0), [state EXCEPT !.basis = flex_strtof(op.arg, 0).x])
          [] t = "OP_LINE_CAP" ->
                name(line_cap_name(op.arg), [state EXCEPT !.line_cap = line_cap_name(op.arg)])
          [] t = "OP_LINE_JOIN" ->
                name(line_join_name(op.arg), [state EXCEPT !.line_join = line_join_name(op.arg)])
          [] t = "OP_LINE_OFFSET" ->
                num(xf_strtod(op.arg, 0), [state EXCEPT !.line_offset = xf_strtod(op.arg, 0).x])
          [] t = "OP_LINE_WIDTH" ->
                num(xf_strtod(op.arg, 0), [state EXCEPT !.line_width = xf_strtod(op.arg, 0).x])
          [] t = "OP_MITER_LIMIT" ->
                num(xf_strtod(op.arg, 0), [state EXCEPT !.miter_limit = xf_strtod(op.arg, 0).x])
          [] t = "OP_IMG" -> leaf(state, op_img(op.arg, state.margin, state.padding))
          [] t = "OP_RULE" ->
                IF RuleRefused(state)
                THEN fatal
                ELSE leaf(IF state.grow = 0 THEN [state EXCEPT !.grow = 10] ELSE state,
                          op_rule(state))
          [] t = "OP_MARKUP" -> leaf(state, op_text(op.arg, state, "pango_layout_set_markup"))
          [] t = "OP_TEXT"   -> leaf(state, op_text(op.arg, state, "pango_layout_set_text"))

(***************************************************************************)
(* eval_line.  An evaluation in progress is a record ev: the evaluator     *)
(* state, the tree, the action array b with items[k] the tree index of     *)
(* action k, and res ("run", or "exit" once exit(1) was called).           *)
(***************************************************************************)
\* the state and the root item that eval_line sets up before its loop
EvalInit(width, height) ==
    [res   |-> "run",
     state |-> [root |-> 1, margin |-> 0, padding |-> 0,
                fg |-> <<255, 255, 255, 255>>, bg |-> <<0, 0, 0, 255>>,
                align_self |-> "FLEX_ALIGN_AUTO",
                grow |-> 0, shrink |-> 0, basis |-> NAN,
                line_cap |-> "CAIRO_LINE_CAP_BUTT", line_join |-> "CAIRO_LINE_JOIN_MITER",
                line_offset |-> 0, line_width |-> 1, miter_limit |-> 10,
                order |-> 0, ca_name |-> NULL,
                desc |-> <<"S","a","n","s">>, e |-> "PANGO_ELLIPSIZE_NONE"],
     tree  |-> << [FlexItemNew EXCEPT !.width = width, !.height = height,
                                      !.align_content = "FLEX_ALIGN_CENTER",
                                      !.align_items = "FLEX_ALIGN_END",
                                      !.direction = "FLEX_DIRECTION_ROW"] >>,
     b     |-> <<>>,
     items |-> <<>>]

\* an item that takes the staged values and leaves them staged
ConsumeNothing(state) == state

\* an item that also takes the colours and the font back to their defaults
ConsumeStyle(state) ==
    [state EXCEPT !.grow = 0, !.shrink = 0, !.ca_name = NULL,
                  !.bg = <<0, 0, 0, 255>>, !.fg = <<255, 255, 255, 255>>,
                  !.desc = <<"S", "a", "n", "s">>]

\* the staged values that eval_line resets once a sized item has taken them
Consume(state) == [state EXCEPT !.grow = 0, !.shrink = 0, !.ca_name = NULL]

\* the iteration storing each new action at the head of the list
EvalApplyPrepends(ev, op, r) ==
    LET open  == op.type = "OP_OPEN"
        sized == r.item.width # NAN
        act   == [type |-> r.act.type, f |-> StaleGeom, m |-> StaleOutline,
                  p |-> StaleOutline, bg |-> r.state.bg,
                  ca_name |-> r.state.ca_name, u |-> r.act.u]
        item  == [r.item EXCEPT
                    !.grow       = IF sized THEN r.state.grow ELSE @,
                    !.shrink     = IF sized THEN r.state.shrink ELSE @,
                    !.order      = r.state.order,
                    !.basis      = r.state.basis,
                    !.align_self = r.state.align_self,
                    !.margin     = r.state.margin,
                    !.padding    = r.state.padding,
                    !.parent     = r.state.root]
        tree1 == Append(r.tree, item)
        st1   == IF sized THEN Consume(r.state) ELSE r.state
    IN  CASE r.res = "exit" -> [ev EXCEPT !.res = "exit"]
          [] r.res = "null" -> [ev EXCEPT !.state = r.state, !.tree = r.tree]
          [] OTHER ->
                [ev EXCEPT
                    !.b     = IF open THEN @ ELSE <<act>> \o @,
                    !.items = IF open THEN @ ELSE <<Len(tree1)>> \o @,
                    !.tree  = tree1,
                    !.state = [st1 EXCEPT !.order = 0,
                                          !.root  = IF open THEN Len(tree1) ELSE @]]

\* the rest of one iteration of the loop over ops, given eval_op's result r
EvalApply(ev, op, r) ==
    LET open  == op.type = "OP_OPEN"
        sized == r.item.width # NAN
        act   == [type |-> r.act.type, f |-> StaleGeom, m |-> StaleOutline,
                  p |-> StaleOutline, bg |-> r.state.bg,
                  ca_name |-> r.state.ca_name, u |-> r.act.u]
        item  == [r.item EXCEPT
                    !.grow       = IF sized THEN r.state.grow ELSE @,
                    !.shrink     = IF sized THEN r.state.shrink ELSE @,
                    !.order      = r.state.order,
                    !.basis      = r.state.basis,
                    !.align_self = r.state.align_self,
                    !.margin     = r.state.margin,
                    !.padding    = r.state.padding,
                    !.parent     = r.state.root]
        tree1 == Append(r.tree, item)
        st1   == IF sized THEN Consume(r.state) ELSE r.state
    IN  CASE r.res = "exit" -> [ev EXCEPT !.res = "exit"]
          [] r.res = "null" -> [ev EXCEPT !.state = r.state, !.tree = r.tree]
          [] OTHER ->
                [ev EXCEPT
                    !.b     = IF open THEN @ ELSE Append(@, act),
                    !.items = IF open THEN @ ELSE Append(@, Len(tree1)),
                    !.tree  = tree1,
                    !.state = [st1 EXCEPT !.order = 0,
                                          !.root  = IF open THEN Len(tree1) ELSE @]]

\* one iteration of the loop over ops
EvalStep(ev, op) == EvalApply(ev, op, eval_op(ev.state, op, ev.tree))

(***************************************************************************)
(* The layout solver (libflex) is outside the repository.  It is stood in  *)
(* for by a single row: each leaf follows the leaves created before it,    *)
(* clipped to the root's width and height.                                 *)
(***************************************************************************)
Min(a, b) == IF a < b THEN a ELSE b
Max(a, b) == IF a > b THEN a ELSE b

RECURSIVE WidthBefore(_, _, _)
\* the sum of the widths of the items of actions 1..k-1
WidthBefore(tree, items, k) ==
    IF k <= 1 THEN 0
    ELSE WidthBefore(tree, items, k - 1) + tree[items[k - 1]].width

\* flex_layout(root) followed by flex_item_get_frame of the item of action k
flex_item_get_frame(tree, items, k) ==
    LET x == WidthBefore(tree, items, k)
    IN  [x |-> x, y |-> 0,
         w |-> Min(tree[items[k]].width, Max(0, tree[1].width - x)),
         h |-> Min(tree[items[k]].height, tree[1].height)]

flex_item_get_margin(item) ==
    [t |-> item.margin, r |-> item.margin, b |-> item.margin, l |-> item.margin,
     w |-> item.margin + item.margin, h |-> item.margin + item.margin]

flex_item_get_padding(item) ==
    [t |-> item.padding, r |-> item.padding, b |-> item.padding, l |-> item.padding,
     w |-> item.padding + item.padding, h |-> item.padding + item.padding]

\* the end of a line with no test for an open container
UnbalancedNever(ev) == FALSE

\* the test after the loop: the current container is not the root
Unbalanced(ev) == ev.tree[ev.state.root].parent # 0

\* eval_line after its loop: the unbalanced '{' check, the layout, and the
\* loop that stores each action's frame, margin and padding
EvalFinish(ev) ==
    IF Unbalanced(ev)
    THEN [ev EXCEPT !.res = "exit"]
    ELSE [ev EXCEPT
            !.res = "done",
            !.b = [k \in 1..Len(ev.b) |->
                     [ev.b[k] EXCEPT
                        !.f = flex_item_get_frame(ev.tree, ev.items, k),
                        !.m = flex_item_get_margin(ev.tree[ev.items[k]]),
                        !.p = flex_item_get_padding(ev.tree[ev.items[k]])]]]

RECURSIVE EvalOps(_, _, _)
\* the loop of eval_line over ops[i..n], stopping at exit(1); e is the
\* evaluation after this iteration, taken as a value
EvalOps(ev, ops, i) ==
    IF ev.res = "exit" \/ i > Len(ops) THEN ev
    ELSE CHOOSE out \in { EvalOps(e, ops, i + 1) : e \in {EvalStep(ev, ops[i])} } : TRUE

\* eval_line(ectx, width, height, ops, n) as a whole
eval_line(width, height, ops) ==
    LET ev == EvalOps(EvalInit(width, height), ops, 1)
    IN  IF ev.res = "exit" THEN ev ELSE EvalFinish(ev)

(***************************************************************************)
(* Hit-testing                                                             *)
(***************************************************************************)
\* inside() without the test against the left edge
insideNoLower(g, x, y) ==
    IF x > g.x + g.w THEN FALSE
    ELSE IF y < g.y \/ y > g.y + g.h THEN FALSE
    ELSE TRUE

inside(g, x, y) ==
    IF x < g.x \/ x > g.x + g.w THEN FALSE
    ELSE IF y < g.y \/ y > g.y + g.h THEN FALSE
    ELSE TRUE

\* one iteration of the loop of the IPC_BUTTON handler: whether action a is
\* printed for a press at (x, y)
HitReports(a, x, y) ==
    IF a.ca_name = NULL THEN FALSE
    ELSE IF ~inside(a.f, x, y) THEN FALSE
    ELSE TRUE

(***************************************************************************)
(* The X11 mode of main(): three threads, one pipe, two mutexes.           *)
(***************************************************************************)
IPC_BUTTON == 1
IPC_RESIZE == 2
IPC_OPS    == 4
IPC_PAINT  == 8
IPC_EXIT   == 16

\* the key code on which ui_main calls exit(1)
QuitKey == 24

\* the default height of main(), and the screen width the window starts with
InitHeight == 20
InitWidth  == 3

\* how many lines the line reader reads and how many X events arrive
MaxLines  == 2
MaxEvents == 2

\* the input lines of the model
\*   A^ca{a}B^ca{b}C   three text leaves, the last two clickable
\*   {x                an unbalanced '{'
Lines ==
    { <<"A","^","c","a","{","a","}","B","^","c","a","{","b","}","C",NL>>,
      <<"{","x",NL>> }

\* the X events of the model: e is the event, the other fields its data
XEvents ==
    { [e |-> "XCB_EXPOSE", a |-> c, b |-> 0] : c \in {0, 1} }
    \cup { [e |-> "XCB_CONFIGURE_NOTIFY", a |-> 2, b |-> InitHeight] }
    \cup { [e |-> "XCB_KEY_PRESS", a |-> k, b |-> 0] : k \in {QuitKey, 38} }
    \cup { [e |-> "XCB_BUTTON_PRESS", a |-> pt[1], b |-> pt[2]] :
              pt \in {<<1, 0>>, <<2, 0>>} }
    \cup { [e |-> "XCB_MAP_NOTIFY", a |-> 0, b |-> 0] }

VARIABLES
    proc,         \* "running", "exited" once exit() was called, "returned"
                  \* once main returned
    mutex_ops,    \* the owner of each mutex: "free", "parse" or "main"
    mutex_acts,
    pipe,         \* the bytes written to fds[1] and not yet read from fds[0]
    fds,          \* "open", or "closed" after the IPC_EXIT handler
    pctx,         \* the token buffer: pctx.ops[1..pctx.n]
    ppc,          \* parse_main: its position
    pbuf,         \* parse_main: buf
    nlines,       \* lines read so far
    upc,          \* ui_main: its position
    nevents,      \* X events delivered so far
    cpc,          \* main: its position
    cur,          \* main: the message being handled
    width,        \* main: width, height
    height,
    ectx,         \* the action list: ectx.b[1..ectx.n]
    est,          \* eval_line: its locals (state, the tree, items[]) and n
    reports,      \* the actions printed for the press being handled
    painted,      \* the actions on the surface after the last paint()
    \* history variables, read by no action's guard
    tokenized,    \* <<line>> for the last line tokenized, <<>> before
    reported,     \* the size in the last configure event, or the initial one
    written,      \* the messages written to the pipe whose handlers have not finished
    running,      \* how many handlers have started and not finished
    built,        \* what the last rebuild started from: width, height, ops
    paintedIn     \* the tag of the handler that did the last paint(), 0 before

vars ==
    <<proc, mutex_ops, mutex_acts, pipe, fds, pctx, ppc, pbuf, nlines,
      upc, nevents, cpc, cur, width, height, ectx, est, reports, painted,
      tokenized, reported, written, running, built, paintedIn>>

parseVars == <<ppc, pbuf, nlines>>
uiVars    == <<upc, nevents>>
mainVars  == <<cpc, cur, width, height, ectx, est, reports, painted>>
histVars  == <<tokenized, reported, written, running, built, paintedIn>>

\* eval_line's locals while no evaluation runs
NoEval == [res |-> "idle", state |-> <<>>, tree |-> <<>>, items |-> <<>>, n |-> 0]

NoMsg == [tag |-> 0, x |-> 0, y |-> 0, detail |-> 0, state |-> 0]

Init ==
    /\ proc = "running"
    /\ mutex_ops = "free"
    /\ mutex_acts = "free"
    /\ pipe = <<>>
    /\ fds = "open"
    /\ pctx = [ops |-> <<>>, n |-> 0]
    /\ ppc = "fgets"
    /\ pbuf = <<>>
    /\ nlines = 0
    /\ upc = "wait"
    /\ nevents = 0
    /\ cpc = "read"
    /\ cur = NoMsg
    /\ width = InitWidth
    /\ height = InitHeight
    /\ ectx = [b |-> <<>>, n |-> 0]
    /\ est = NoEval
    /\ reports = <<>>
    /\ painted = <<>>
    /\ tokenized = <<>>
    /\ reported = <<InitWidth, InitHeight>>
    /\ written = <<>>
    /\ running = 0
    /\ built = [width |-> InitWidth, height |-> InitHeight, ops |-> <<>>]
    /\ paintedIn = 0

(***************************************************************************)
(* Messages on the pipe                                                    *)
(***************************************************************************)
\* the two bytes of a 16-bit field, as the machine stores them
Bytes16(v) == <<(v % 65536) % 256, (v % 65536) \div 256>>

\* what write() or writev() puts on the pipe for message m
Encode(m) ==
    CASE m.tag = IPC_RESIZE -> <<IPC_RESIZE>> \o Bytes16(m.x) \o Bytes16(m.y)
      [] m.tag = IPC_BUTTON ->
            <<IPC_BUTTON>> \o Bytes16(m.x) \o Bytes16(m.y) \o <<m.detail % 256>>
                \o Bytes16(m.state)
      [] OTHER -> <<m.tag>>

\* a writev() that puts only its first buffer, the tag, on the pipe
WriteTag(m) ==
    IF fds = "open"
    THEN /\ pipe' = Append(pipe, m.tag)
         /\ written' = Append(written, m)
    ELSE UNCHANGED <<pipe, written>>

\* write(fd, ...) or writev(fd, ...) of message m: one atomic append to the
\* pipe, or nothing once the descriptor is closed
Write(m) ==
    IF fds = "open"
    THEN /\ pipe' = pipe \o Encode(m)
         /\ written' = Append(written, m)
    ELSE UNCHANGED <<pipe, written>>

\* a readv() of the IPC_BUTTON payload that leaves its last byte on the pipe
PayloadLenShort(tag) ==
    CASE tag = IPC_BUTTON -> 6
      [] tag = IPC_RESIZE -> 4
      [] OTHER -> 0

\* the number of payload bytes the handler of a tag reads with readv()
PayloadLen(tag) ==
    CASE tag = IPC_BUTTON -> 7
      [] tag = IPC_RESIZE -> 4
      [] OTHER -> 0

\* byte k of the payload p, or junk where readv() came back short
PayloadByte(p, k, junk) == IF k <= Len(p) THEN p[k] ELSE junk

\* the fields the handler of a tag reads from the payload bytes p
Decode(tag, p, junk) ==
    LET u16(k) == PayloadByte(p, k, junk) + 256 * PayloadByte(p, k + 1, junk)
    IN  CASE tag = IPC_BUTTON ->
                [tag |-> tag, x |-> u16(1), y |-> u16(3),
                 detail |-> PayloadByte(p, 5, junk), state |-> u16(6)]
          [] tag = IPC_RESIZE ->
                [tag |-> tag, x |-> u16(1), y |-> u16(3), detail |-> 0, state |-> 0]
          [] OTHER -> [tag |-> tag, x |-> 0, y |-> 0, detail |-> 0, state |-> 0]

\* a message with all fields but the tag zero
Msg(tag) == [tag |-> tag, x |-> 0, y |-> 0, detail |-> 0, state |-> 0]

(***************************************************************************)
(* parse_main, in X11 mode (pctx->fd is the pipe)                          *)
(***************************************************************************)
\* fgets() returns a line
\* fgets() returns a line out of the set input, then the store and the test
\* of lines 1205-1210
Fgets(input) ==
    /\ proc = "running" /\ ppc = "fgets"
    /\ \E line \in input :
          /\ pbuf' = LineBuf(line)
          /\ IF Overflow(LineBuf(line))
             THEN proc' = "exited" /\ UNCHANGED ppc
             ELSE ppc' = "lock" /\ UNCHANGED proc
    /\ nlines' = nlines + 1
    /\ UNCHANGED <<mutex_ops, mutex_acts, pipe, fds, pctx, uiVars, mainVars, histVars>>

ParseFgets == nlines < MaxLines /\ Fgets(Lines)

\* fgets() returns NULL at the end of the input: the thread returns
ParseEof ==
    /\ proc = "running" /\ ppc = "fgets"
    /\ ppc' = "done"
    /\ UNCHANGED <<proc, mutex_ops, mutex_acts, pipe, fds, pctx, pbuf, nlines,
                   uiVars, mainVars, histVars>>

\* parse_main refilling the buffer without taking mutex_ops
ParseNoLock ==
    /\ proc = "running" /\ ppc = "lock"
    /\ pctx' = [pctx EXCEPT !.n = 0]
    /\ tokenized' = <<SubSeq(pbuf, 1, Len(pbuf) - 1)>>
    /\ ppc' = "parse"
    /\ UNCHANGED <<proc, mutex_ops, mutex_acts, pipe, fds, pbuf, nlines, uiVars, mainVars,
                   reported, written, running, built, paintedIn>>

\* xlock(&mutex_ops); pctx->n = 0;
ParseLock ==
    /\ proc = "running" /\ ppc = "lock"
    /\ mutex_ops = "free"
    /\ mutex_ops' = "parse"
    /\ pctx' = [pctx EXCEPT !.n = 0]
    /\ tokenized' = <<SubSeq(pbuf, 1, Len(pbuf) - 1)>>
    /\ ppc' = "parse"
    /\ UNCHANGED <<proc, mutex_acts, pipe, fds, pbuf, nlines, uiVars, mainVars,
                   reported, written, running, built, paintedIn>>

\* the tokens of a line stored after those the buffer already holds
StoreOpsAfter(ctx, ops) ==
    [ops |-> ctx.ops \o ops, n |-> Len(ctx.ops) + Len(ops)]

\* pctx->ops[0..] = ops, pctx->n = their number; the slots after them keep
\* what they held
StoreOps(ctx, ops) ==
    [ops |-> ops \o SubSeq(ctx.ops, Len(ops) + 1, Len(ctx.ops)),
     n   |-> Len(ops)]

\* the number of elements of main's arrays ops, and b and items
OpsCapacity == 75
ActsCapacity == 50

\* the while loop around parse_op, to its end or to exit(1); the loop
\* stores every token at ops[n] without a test of n, so that the tokens
\* after the last element of ops land on main's stack behind the array: the
\* process faults, or goes on with n past the array
\* parse_op running off the end of an unterminated buf reads and writes the
\* stack behind it: the thread faults, or goes on with the bytes it finds
ParseLoop ==
    /\ proc = "running" /\ ppc = "parse"
    /\ \/ /\ ~Terminated(pbuf)
          /\ proc' = "exited"
          /\ UNCHANGED <<ppc, pctx>>
       \/ \E more \in IF Terminated(pbuf) THEN {<<>>} ELSE Beyond :
            LET r == TokenizeFrom(pbuf \o more, 1, <<>>)
            IN  IF r.res = "exit"
                THEN /\ proc' = "exited"
                     /\ UNCHANGED <<ppc, pctx>>
                ELSE \/ /\ pctx' = StoreOps(pctx, r.ops)
                        /\ ppc' = "unlock"
                        /\ UNCHANGED proc
                     \/ /\ Len(r.ops) > OpsCapacity
                        /\ proc' = "exited"
                        /\ UNCHANGED <<ppc, pctx>>
    /\ UNCHANGED <<mutex_ops, mutex_acts, pipe, fds, pbuf, nlines, uiVars, mainVars, histVars>>

\* xunlock(&mutex_ops);
ParseUnlock ==
    /\ proc = "running" /\ ppc = "unlock"
    /\ mutex_ops' = "free"
    /\ ppc' = "write"
    /\ UNCHANGED <<proc, mutex_acts, pipe, fds, pctx, pbuf, nlines, uiVars,
                   mainVars, histVars>>

\* write(pctx->fd, IPC_OPS)
ParseWrite ==
    /\ proc = "running" /\ ppc = "write"
    /\ Write(Msg(IPC_OPS))
    /\ ppc' = "fgets"
    /\ UNCHANGED <<proc, mutex_ops, mutex_acts, fds, pctx, pbuf, nlines, uiVars,
                   mainVars, tokenized, reported, running, built, paintedIn>>

(***************************************************************************)
(* ui_main: one action per X event, from xcb_wait_for_event to free(e)     *)
(***************************************************************************)
UiGets ==
    /\ proc = "running" /\ upc = "wait" /\ nevents < MaxEvents
    /\ nevents' = nevents + 1
    /\ upc' = upc

UiQuiet ==
    UNCHANGED <<mutex_ops, mutex_acts, fds, pctx, parseVars, mainVars,
                tokenized, running, built, paintedIn>>

\* XCB_MAP_NOTIFY, XCB_REPARENT_NOTIFY and the unhandled events
UiOther ==
    /\ \E ev \in XEvents : ev.e = "XCB_MAP_NOTIFY"
    /\ UiGets
    /\ UNCHANGED <<proc, pipe, written, reported>>
    /\ UiQuiet

UiKey ==
    /\ UiGets
    /\ \E ev \in XEvents :
          /\ ev.e = "XCB_KEY_PRESS"
          /\ proc' = IF ev.a = QuitKey THEN "exited" ELSE proc
    /\ UNCHANGED <<pipe, written, reported>>
    /\ UiQuiet

UiExpose ==
    /\ UiGets
    /\ \E ev \in XEvents :
          /\ ev.e = "XCB_EXPOSE"
          /\ IF ev.a # 0
             THEN UNCHANGED <<pipe, written>>
             ELSE Write(Msg(IPC_PAINT))
    /\ UNCHANGED <<proc, reported>>
    /\ UiQuiet

UiConfigure ==
    /\ UiGets
    /\ \E ev \in XEvents :
          /\ ev.e = "XCB_CONFIGURE_NOTIFY"
          /\ Write([Msg(IPC_RESIZE) EXCEPT !.x = ev.a, !.y = ev.b])
          /\ reported' = <<ev.a, ev.b>>
    /\ UNCHANGED proc
    /\ UiQuiet

UiButton ==
    /\ UiGets
    /\ \E ev \in XEvents :
          /\ ev.e = "XCB_BUTTON_PRESS"
          /\ Write([Msg(IPC_BUTTON) EXCEPT !.x = ev.a, !.y = ev.b, !.detail = 1])
    /\ UNCHANGED <<proc, reported>>
    /\ UiQuiet

\* xcb_wait_for_event() returns NULL (the connection is gone): the thread returns
UiDisconnect ==
    /\ proc = "running" /\ upc = "wait"
    /\ upc' = "done"
    /\ UNCHANGED <<proc, mutex_ops, mutex_acts, pipe, fds, pctx, parseVars, nevents,
                   mainVars, histVars>>

(***************************************************************************)
(* main: the loop that reads the pipe, and its handlers                    *)
(***************************************************************************)
\* where the switch sends the handler of a tag
Dispatch(tag) ==
    CASE tag = IPC_BUTTON -> "button_lock"
      [] tag = IPC_RESIZE -> "resize"
      [] tag = IPC_OPS    -> "ops_lock_ops"
      [] tag = IPC_PAINT  -> "paint_lock"
      [] tag = IPC_EXIT   -> "exit"
      [] OTHER            -> "read"

\* the end of a handler: break, back to read()
Finished ==
    /\ running' = running - 1
    /\ written' = IF written = <<>> THEN written ELSE Tail(written)

\* read(fds[0], &x, 1) == 1, and the readv() of the handler of tag x
MainRead ==
    /\ proc = "running" /\ cpc = "read" /\ fds = "open"
    /\ pipe # <<>>
    /\ LET tag == Head(pipe)
           len == Min(PayloadLen(tag), Len(pipe) - 1)
       IN  /\ \E junk \in {0, 255} : cur' = Decode(tag, SubSeq(pipe, 2, 1 + len), junk)
           /\ pipe' = SubSeq(pipe, 2 + len, Len(pipe))
           /\ cpc' = Dispatch(tag)
           /\ running' = IF Dispatch(tag) = "read" THEN running ELSE running + 1
    /\ UNCHANGED <<proc, mutex_ops, mutex_acts, fds, pctx, parseVars, uiVars,
                   width, height, ectx, est, reports, painted,
                   tokenized, reported, written, built, paintedIn>>

\* IPC_BUTTON: xlock(&mutex_acts);
MainButtonLock ==
    /\ proc = "running" /\ cpc = "button_lock"
    /\ mutex_acts = "free"
    /\ mutex_acts' = "main"
    /\ reports' = <<>>
    /\ cpc' = "hit"
    /\ UNCHANGED <<proc, mutex_ops, pipe, fds, pctx, parseVars, uiVars,
                   cur, width, height, ectx, est, painted, histVars>>

RECURSIVE HitLoop(_, _, _, _, _)
\* the loop over b[i..n] of the IPC_BUTTON handler: the indices it prints
HitLoop(b, n, i, x, y) ==
    IF i > n THEN <<>>
    ELSE (IF HitReports(b[i], x, y) THEN <<i>> ELSE <<>>) \o HitLoop(b, n, i + 1, x, y)

\* the loop over ectx.b
MainHit ==
    /\ proc = "running" /\ cpc = "hit"
    /\ reports' = HitLoop(ectx.b, ectx.n, 1, cur.x, cur.y)
    /\ cpc' = "button_unlock"
    /\ UNCHANGED <<proc, mutex_ops, mutex_acts, pipe, fds, pctx, parseVars, uiVars,
                   cur, width, height, ectx, est, painted, histVars>>

\* xunlock(&mutex_acts); break;
MainButtonUnlock ==
    /\ proc = "running" /\ cpc = "button_unlock"
    /\ mutex_acts' = "free"
    /\ cpc' = "read"
    /\ Finished
    /\ UNCHANGED <<proc, mutex_ops, pipe, fds, pctx, parseVars, uiVars,
                   cur, width, height, ectx, est, reports, painted,
                   tokenized, reported, built, paintedIn>>

\* an IPC_RESIZE handler that reads the size and does not store it
MainResizeKeeps ==
    /\ proc = "running" /\ cpc = "resize"
    /\ cpc' = "ops_lock_ops"
    /\ UNCHANGED <<proc, mutex_ops, mutex_acts, pipe, fds, pctx, parseVars, uiVars,
                   cur, width, height, ectx, est, reports, painted, histVars>>

\* IPC_RESIZE: width = w; height = h; and fall through
MainResize ==
    /\ proc = "running" /\ cpc = "resize"
    /\ width' = cur.x
    /\ height' = cur.y
    /\ cpc' = "ops_lock_ops"
    /\ UNCHANGED <<proc, mutex_ops, mutex_acts, pipe, fds, pctx, parseVars, uiVars,
                   cur, ectx, est, reports, painted, histVars>>

\* the two xlock calls in the other order: mutex_acts is taken first
MainOpsLockActsFirst ==
    /\ proc = "running" /\ cpc = "ops_lock_ops"
    /\ mutex_acts = "free"
    /\ mutex_acts' = "main"
    /\ UNCHANGED <<proc, mutex_ops, pipe, fds, pctx, parseVars, uiVars,
                   cpc, cur, width, height, ectx, est, reports, painted, histVars>>

\* IPC_OPS: xlock(&mutex_ops);
MainOpsLockOps ==
    /\ proc = "running" /\ cpc = "ops_lock_ops"
    /\ mutex_ops = "free"
    /\ mutex_ops' = "main"
    /\ cpc' = "ops_lock_acts"
    /\ UNCHANGED <<proc, mutex_acts, pipe, fds, pctx, parseVars, uiVars,
                   cur, width, height, ectx, est, reports, painted, histVars>>

\* xlock(&mutex_acts);
MainOpsLockActs ==
    /\ proc = "running" /\ cpc = "ops_lock_acts"
    /\ mutex_acts = "free"
    /\ mutex_acts' = "main"
    /\ cpc' = "eval_line"
    /\ UNCHANGED <<proc, mutex_ops, pipe, fds, pctx, parseVars, uiVars,
                   cur, width, height, ectx, est, reports, painted, histVars>>

\* eval_line starting without ectx->n = 0: the actions of the rebuild before
\* stay in the list
MainEvalInitKeeps ==
    /\ proc = "running" /\ cpc = "eval_line" /\ est.res = "idle"
    /\ LET ev == EvalInit(width, height)
       IN  est' = [res |-> "run", state |-> ev.state, tree |-> ev.tree,
                   items |-> [k \in 1..ectx.n |-> 1], n |-> pctx.n]
    /\ built' = [width |-> width, height |-> height, ops |-> SubSeq(pctx.ops, 1, pctx.n)]
    /\ UNCHANGED <<proc, mutex_ops, mutex_acts, pipe, fds, pctx, parseVars, uiVars,
                   cpc, cur, width, height, ectx, reports, painted,
                   tokenized, reported, written, running, paintedIn>>

\* the call eval_line(&ectx, width, height, pctx.ops, pctx.n) up to ectx->n = 0
MainEvalInit ==
    /\ proc = "running" /\ cpc = "eval_line" /\ est.res = "idle"
    /\ LET ev == EvalInit(width, height)
       IN  est' = [res |-> "run", state |-> ev.state, tree |-> ev.tree,
                   items |-> <<>>, n |-> pctx.n]
    /\ ectx' = [b |-> <<>>, n |-> 0]
    /\ built' = [width |-> width, height |-> height, ops |-> SubSeq(pctx.ops, 1, pctx.n)]
    /\ UNCHANGED <<proc, mutex_ops, mutex_acts, pipe, fds, pctx, parseVars, uiVars,
                   cpc, cur, width, height, reports, painted,
                   tokenized, reported, written, running, paintedIn>>

\* the evaluation in progress, as EvalOps and EvalFinish take it
EvalNow == [res |-> est.res, state |-> est.state, tree |-> est.tree,
            b |-> ectx.b, items |-> est.items]

\* eval_line returning after its loop, without the layout and the frames
MainEvalLoopReturns ==
    /\ proc = "running" /\ cpc = "eval_line" /\ est.res = "run"
    /\ LET ev == EvalOps(EvalNow, SubSeq(pctx.ops, 1, est.n), 1)
       IN  IF ev.res = "exit"
           THEN /\ proc' = "exited"
                /\ UNCHANGED <<est, ectx, cpc>>
           ELSE /\ est' = NoEval
                /\ ectx' = [b |-> ev.b, n |-> Len(ev.b)]
                /\ cpc' = "ops_unlock_acts"
                /\ UNCHANGED proc
    /\ UNCHANGED <<mutex_ops, mutex_acts, pipe, fds, pctx, parseVars, uiVars,
                   cur, width, height, reports, painted, histVars>>

\* eval_line's loop over ops[0..n-1], to its end or to exit(1)
MainEvalLoop ==
    /\ proc = "running" /\ cpc = "eval_line" /\ est.res = "run"
    /\ LET ev == EvalOps(EvalNow, SubSeq(pctx.ops, 1, est.n), 1)
       IN  IF ev.res = "exit"
           THEN /\ proc' = "exited"
                /\ UNCHANGED <<est, ectx>>
           ELSE /\ est' = [est EXCEPT !.res = "looped", !.state = ev.state,
                                      !.tree = ev.tree, !.items = ev.items]
                /\ ectx' = [b |-> ev.b, n |-> Len(ev.b)]
                /\ UNCHANGED proc
    /\ UNCHANGED <<mutex_ops, mutex_acts, pipe, fds, pctx, parseVars, uiVars,
                   cpc, cur, width, height, reports, painted, histVars>>

\* eval_line after its loop, and its return
MainEvalFinish ==
    /\ proc = "running" /\ cpc = "eval_line" /\ est.res = "looped"
    /\ LET ev == EvalFinish(EvalNow)
       IN  IF ev.res = "exit"
           THEN /\ proc' = "exited"
                /\ UNCHANGED <<est, ectx, cpc>>
           ELSE /\ ectx' = [b |-> ev.b, n |-> Len(ev.b)]
                /\ est' = NoEval
                /\ cpc' = "ops_unlock_acts"
                /\ UNCHANGED proc
    /\ UNCHANGED <<mutex_ops, mutex_acts, pipe, fds, pctx, parseVars, uiVars,
                   cur, width, height, reports, painted, histVars>>

\* xunlock(&mutex_acts);
MainOpsUnlockActs ==
    /\ proc = "running" /\ cpc = "ops_unlock_acts"
    /\ mutex_acts' = "free"
    /\ cpc' = "ops_unlock_ops"
    /\ UNCHANGED <<proc, mutex_ops, pipe, fds, pctx, parseVars, uiVars,
                   cur, width, height, ectx, est, reports, painted, histVars>>

\* the IPC_OPS case ending in a break instead of falling through
MainOpsUnlockBreaks ==
    /\ proc = "running" /\ cpc = "ops_unlock_ops"
    /\ mutex_ops' = "free"
    /\ cpc' = "read"
    /\ Finished
    /\ UNCHANGED <<proc, mutex_acts, pipe, fds, pctx, parseVars, uiVars,
                   cur, width, height, ectx, est, reports, painted,
                   tokenized, reported, built, paintedIn>>

\* xunlock(&mutex_ops); and fall through to IPC_PAINT
MainOpsUnlockOps ==
    /\ proc = "running" /\ cpc = "ops_unlock_ops"
    /\ mutex_ops' = "free"
    /\ cpc' = "paint_lock"
    /\ UNCHANGED <<proc, mutex_acts, pipe, fds, pctx, parseVars, uiVars,
                   cur, width, height, ectx, est, reports, painted, histVars>>

\* the IPC_PAINT case without its xlock(&mutex_acts)
MainPaintNoLock ==
    /\ proc = "running" /\ cpc = "paint_lock"
    /\ cpc' = "paint"
    /\ UNCHANGED <<proc, mutex_ops, mutex_acts, pipe, fds, pctx, parseVars, uiVars,
                   cur, width, height, ectx, est, reports, painted, histVars>>

\* IPC_PAINT: the surface is created; xlock(&mutex_acts);
MainPaintLock ==
    /\ proc = "running" /\ cpc = "paint_lock"
    /\ mutex_acts = "free"
    /\ mutex_acts' = "main"
    /\ cpc' = "paint"
    /\ UNCHANGED <<proc, mutex_ops, pipe, fds, pctx, parseVars, uiVars,
                   cur, width, height, ectx, est, reports, painted, histVars>>

\* paint(cr, ectx.b, ectx.n): the actions it draws, in order
paint(b, n) == SubSeq(b, 1, n)

MainPaint ==
    /\ proc = "running" /\ cpc = "paint"
    /\ painted' = paint(ectx.b, ectx.n)
    /\ paintedIn' = cur.tag
    /\ cpc' = "paint_unlock"
    /\ UNCHANGED <<proc, mutex_ops, mutex_acts, pipe, fds, pctx, parseVars, uiVars,
                   cur, width, height, ectx, est, reports,
                   tokenized, reported, written, running, built>>

\* xunlock(&mutex_acts); xcb_flush(); break;
MainPaintUnlock ==
    /\ proc = "running" /\ cpc = "paint_unlock"
    /\ mutex_acts' = "free"
    /\ cpc' = "read"
    /\ Finished
    /\ UNCHANGED <<proc, mutex_ops, pipe, fds, pctx, parseVars, uiVars,
                   cur, width, height, ectx, est, reports, painted,
                   tokenized, reported, built, paintedIn>>

ParseNext ==
    ParseFgets \/ ParseEof \/ ParseLock \/ ParseLoop \/ ParseUnlock \/ ParseWrite

UiNext ==
    UiOther \/ UiKey \/ UiExpose \/ UiConfigure \/ UiButton \/ UiDisconnect

MainNext ==
    \/ MainRead
    \/ MainButtonLock \/ MainHit \/ MainButtonUnlock
    \/ MainResize \/ MainOpsLockOps \/ MainOpsLockActs
    \/ MainEvalInit \/ MainEvalLoop \/ MainEvalFinish
    \/ MainOpsUnlockActs \/ MainOpsUnlockOps
    \/ MainPaintLock \/ MainPaint \/ MainPaintUnlock

Next == ParseNext \/ UiNext \/ MainNext

Spec == Init /\ [][Next]_vars

(***************************************************************************)
(* IPC_EXIT.  No statement of the program writes IPC_EXIT to the pipe; its *)
(* handler and the code after the loop are modelled under SpecExit, where  *)
(* PostExit stands for a writer of that message.                           *)
(***************************************************************************)
\* some writer posts the Exit message, once
PostExit ==
    /\ proc = "running" /\ fds = "open"
    /\ \A k \in 1..Len(written) : written[k].tag # IPC_EXIT
    /\ Write(Msg(IPC_EXIT))
    /\ UNCHANGED <<proc, mutex_ops, mutex_acts, fds, pctx, parseVars, uiVars, mainVars,
                   tokenized, reported, running, built, paintedIn>>

\* IPC_EXIT: close(fds[0]); close(fds[1]); break;
MainExit ==
    /\ proc = "running" /\ cpc = "exit"
    /\ fds' = "closed"
    /\ pipe' = <<>>
    /\ running' = running - 1
    /\ written' = <<>>
    /\ cpc' = "read"
    /\ UNCHANGED <<proc, mutex_ops, mutex_acts, pctx, parseVars, uiVars,
                   cur, width, height, ectx, est, reports, painted,
                   tokenized, reported, built, paintedIn>>

\* read(fds[0], &x, 1) fails on the closed descriptor: the loop ends
MainReadClosed ==
    /\ proc = "running" /\ cpc = "read" /\ fds = "closed"
    /\ cpc' = "join_ui"
    /\ UNCHANGED <<proc, mutex_ops, mutex_acts, pipe, fds, pctx, parseVars, uiVars,
                   cur, width, height, ectx, est, reports, painted, histVars>>

\* pthread_join(ui_tid, NULL) returns once ui_main has returned
MainJoinUi ==
    /\ proc = "running" /\ cpc = "join_ui"
    /\ upc = "done"
    /\ cpc' = "join_parse"
    /\ UNCHANGED <<proc, mutex_ops, mutex_acts, pipe, fds, pctx, parseVars, uiVars,
                   cur, width, height, ectx, est, reports, painted, histVars>>

\* pthread_join(parse_tid, NULL) returns once parse_main has returned;
\* xcb_disconnect(xcb); return 0;
MainJoinParse ==
    /\ proc = "running" /\ cpc = "join_parse"
    /\ ppc = "done"
    /\ proc' = "returned"
    /\ cpc' = "done"
    /\ UNCHANGED <<mutex_ops, mutex_acts, pipe, fds, pctx, parseVars, uiVars,
                   cur, width, height, ectx, est, reports, painted, histVars>>

MainExitNext == MainExit \/ MainReadClosed \/ MainJoinUi \/ MainJoinParse

\* the steps of parse_main that wait for no input
ParseRuns == ParseLock \/ ParseLoop \/ ParseUnlock \/ ParseWrite

NextExit == Next \/ PostExit \/ MainExitNext

\* the main thread and the line reader are scheduled whenever they can run;
\* nothing obliges stdin or the X server to deliver anything
SpecExit ==
    /\ Init /\ [][NextExit]_vars
    /\ WF_vars(MainNext \/ MainExitNext)
    /\ WF_vars(ParseRuns)

(***************************************************************************)
(* Properties of the pipeline                                              *)
(***************************************************************************)
\* the action list that eval_line builds from what the last rebuild started
\* with
Rebuilt == eval_line(built.width, built.height, built.ops).b

\* C1: whenever the IPC_BUTTON handler hit-tests, no eval_line call is in
\* progress and the action list is the whole result of the last rebuild,
\* frames included; before the first rebuild it is the empty list.
C1_HitSeesFinishedRebuild ==
    cpc \in {"hit", "button_unlock"} =>
        /\ est.res = "idle"
        /\ ectx.b = Rebuilt
        /\ ectx.n = Len(Rebuilt)

\* a hit test over a non-empty list while parse_main holds mutex_ops and is
\* refilling the token buffer
C1_Witness == cpc = "hit" /\ ectx.n > 0 /\ ppc = "parse" /\ mutex_ops = "parse"

\* C2: the main thread holds mutex_acts wherever it rebuilds, hit-tests or
\* paints the action list, and in the IPC_PAINT code from before paint()
\* until after it; no other thread touches the list.
C2_ActsUnderMutex ==
    /\ cpc \in {"eval_line", "ops_unlock_acts", "hit", "button_unlock",
                "paint", "paint_unlock"} => mutex_acts = "main"
    /\ mutex_acts \in {"free", "main"}

\* paint() about to draw a non-empty list, while parse_main refills the buffer
C2_Witness == cpc = "paint" /\ ectx.n > 0 /\ mutex_acts = "main" /\ ppc = "parse"

\* a thread that is at an xlock call whose mutex is taken
MainBlocked ==
    \/ cpc = "ops_lock_ops" /\ mutex_ops # "free"
    \/ cpc \in {"ops_lock_acts", "button_lock", "paint_lock"} /\ mutex_acts # "free"

ParseBlocked == ppc = "lock" /\ mutex_ops # "free"

\* C3: mutex_ops is never requested by a thread that holds mutex_acts, the
\* line reader never holds mutex_acts, and the main thread and the line
\* reader are never both blocked at an xlock call.
C3_LockOrder ==
    /\ cpc = "ops_lock_ops" => mutex_acts # "main"
    /\ mutex_acts # "parse"
    /\ ~(MainBlocked /\ ParseBlocked)
    /\ cpc = "ops_lock_acts" => mutex_ops = "main" /\ mutex_acts = "free"

\* the main thread waits for mutex_ops, which parse_main holds
C3_Witness == cpc = "ops_lock_ops" /\ mutex_ops = "parse" /\ ppc = "parse"

\* the tokens of the last line parse_main began to tokenize
LastTokens == IF tokenized = <<>> THEN <<>> ELSE Tokenize(tokenized[1]).ops

\* C4: while eval_line runs in the IPC_OPS code the main thread holds
\* mutex_ops, and pctx.ops[0..pctx.n-1] is the whole token sequence of the
\* last line read, or empty before any line.
C4_WholeTokenBuffer ==
    cpc = "eval_line" =>
        /\ mutex_ops = "main"
        /\ SubSeq(pctx.ops, 1, pctx.n) = LastTokens
        /\ est.res # "idle" => est.n = pctx.n /\ built.ops = LastTokens

\* eval_line in its loop over a non-empty buffer while parse_main waits at
\* xlock(&mutex_ops) with the next line
C4_Witness ==
    cpc = "eval_line" /\ est.res = "run" /\ pctx.n > 0 /\ ppc = "lock" /\ nlines = 2

\* the main thread is inside a handler
Handling == cpc # "read"

RECURSIVE EncodeAll(_)
\* the bytes of a sequence of messages
EncodeAll(ms) == IF ms = <<>> THEN <<>> ELSE Encode(Head(ms)) \o EncodeAll(Tail(ms))

\* message m as its handler reads it back
Received(m) == Decode(m.tag, Tail(Encode(m)), 0)

\* C5: at most one handler runs; the message being handled is the oldest
\* one written and not yet handled; the pipe holds the later ones in the
\* order they were written; an eval_line call in progress belongs to the
\* one running handler.
C5_FifoOneAtATime ==
    /\ running \in {0, 1}
    /\ Handling <=> running = 1
    /\ Handling => written # <<>> /\ cur = Received(Head(written))
    /\ pipe = EncodeAll(IF Handling /\ written # <<>> THEN Tail(written) ELSE written)
    /\ est.res # "idle" => cpc = "eval_line"

\* a handler runs while two later messages wait on the pipe
C5_Witness == Handling /\ Len(written) >= 3 /\ cpc = "eval_line"

\* C6 as stated: the list is painted only by the handler of an IPC_PAINT
\* message, never by the handler that rebuilt it.
C6_PaintOnlyOnRepaint ==
    cpc \in {"paint_lock", "paint", "paint_unlock"} => cur.tag = IPC_PAINT

\* C6: the IPC_OPS (IPC_RESIZE) handler, after the rebuild and with both
\* mutexes released, goes on to paint the new list itself: it writes nothing
\* to the pipe, and when it finishes the surface shows the list, so between
\* handlers the surface always shows the current action list.
C6_RebuildPaintsInHandler ==
    /\ cpc = "read" => painted = paint(ectx.b, ectx.n)
    /\ (cur.tag \in {IPC_OPS, IPC_RESIZE}
            /\ cpc \in {"paint_lock", "paint", "paint_unlock"}) =>
          /\ mutex_ops # "main"
          /\ cpc = "paint_lock" => mutex_acts = "free"
          /\ written # <<>> /\ Received(Head(written)) = cur
          /\ ectx.b = Rebuilt
          /\ cpc = "paint_unlock" => painted = paint(ectx.b, ectx.n) /\ paintedIn = cur.tag
    /\ \A k \in 1..Len(written) :
          written[k].tag \in {IPC_BUTTON, IPC_RESIZE, IPC_OPS, IPC_PAINT}
    /\ Len(written) <= nlines + nevents

\* the IPC_OPS handler paints the list it has just rebuilt, ahead of a
\* message that was already on the pipe
C6_Witness == cpc = "paint" /\ cur.tag = IPC_OPS /\ pipe # <<>> /\ ectx.n > 0

\* nothing is left to handle and no producer is between a line and its message
Quiescent ==
    /\ proc = "running"
    /\ cpc = "read" /\ pipe = <<>>
    /\ ppc \in {"fgets", "done"}

\* C7: once the pipe is drained and the producers are idle, the action list
\* is eval_line of the last line tokenized at the last size reported, and it
\* is what the surface shows.
C7_DisplayCatchesUp ==
    Quiescent =>
        /\ width = reported[1] /\ height = reported[2]
        /\ ectx.b = eval_line(reported[1], reported[2], LastTokens).b
        /\ ectx.n = Len(ectx.b)
        /\ painted = paint(ectx.b, ectx.n)

\* drained after two lines and a resize, with something on the surface
C7_Witness ==
    Quiescent /\ nlines = 2 /\ reported[1] # InitWidth /\ painted # <<>>

\* the actions a press at (x, y) may be reported for
Candidates(x, y) ==
    { i \in 1..ectx.n :
        /\ ectx.b[i].ca_name # NULL
        /\ ectx.b[i].f.x <= x /\ x <= ectx.b[i].f.x + ectx.b[i].f.w
        /\ ectx.b[i].f.y <= y /\ y <= ectx.b[i].f.y + ectx.b[i].f.h }

\* C8 as stated: a press is reported for exactly one action, the candidate
\* of lowest index, when there is a candidate at all.
C8_FirstCandidateOnly ==
    cpc = "button_unlock" =>
        LET c == Candidates(cur.x, cur.y)
        IN  IF c = {} THEN reports = <<>>
            ELSE reports = << CHOOSE i \in c : \A j \in c : i <= j >>

\* C9: every action a press is reported for has a clickable-area name and a
\* frame that contains the point, edges included.
C9_ReportsAreCandidates ==
    cpc = "button_unlock" =>
        \A k \in 1..Len(reports) : reports[k] \in Candidates(cur.x, cur.y)

\* a press reported for one action, on a point that also lies in the frame
\* of an action without a clickable-area name
C9_Witness ==
    /\ cpc = "button_unlock" /\ reports # <<>>
    /\ \E i \in 1..ectx.n :
          /\ ectx.b[i].ca_name = NULL
          /\ inside(ectx.b[i].f, cur.x, cur.y)

\* C10 as stated: once the main thread has taken an Exit message off the
\* pipe, the process ends.
C10_ExitTerminates == (cpc = "exit") ~> (proc # "running")

(***************************************************************************)
(* The evaluator on composed lines.  SpecEval runs the producer and the    *)
(* consumer in X11 mode with no X events; standard input delivers a first  *)
(* line composed of up to MaxPieces pieces and then plain lines, each once *)
(* the display has settled on the line before.  A piece is a text, a       *)
(* brace, or one or more commands.                                         *)
(***************************************************************************)
MaxPieces == 3
MaxEvalLines == 2

Pieces ==
    { <<"A">>, <<"{">>, <<"}">>,
      <<"^","g","r","o","w","{","2","}", "^","o","r","d","e","r","{","3","}">>,
      <<"^","g","r","o","w","{","0","}">>,
      <<"^","g","r","o","w","{","2","x","}">>,
      <<"^","s","h","r","i","n","k","{","4","}", "^","c","a","{","k","}">>,
      <<"^","f","o","n","t","{","M","}", "^","b","a","s","i","s","{","5","}">>,
      <<"^","a","l","i","g","n","-","s","e","l","f","{","e","n","d","}">>,
      <<"^","b","g","{","r","e","d","}", "^","f","g","{","b","l","u","e","}">>,
      <<"^","r","u","l","e","{","}">>,
      <<"^","m","a","r","k","u","p","{","x","}">> }

RECURSIVE Composed(_)
\* the character sequences made of exactly n pieces
Composed(n) ==
    IF n = 0 THEN { <<>> }
    ELSE { s \o pc : s \in Composed(n - 1), pc \in Pieces }

\* the first lines of the input: 1..MaxPieces pieces and the newline
EvalLines == { Append(s, NL) : s \in UNION { Composed(n) : n \in 1..MaxPieces } }

\* the lines after the first
PlainLine == <<"A", NL>>

\* fgets() returning the next line, delivered once the consumer is idle
ParseFgetsEval ==
    /\ nlines < MaxEvalLines
    /\ cpc = "read" /\ pipe = <<>>
    /\ Fgets(IF nlines = 0 THEN EvalLines ELSE {PlainLine})

NextEval ==
    \/ ParseFgetsEval \/ ParseLock \/ ParseLoop \/ ParseUnlock \/ ParseWrite
    \/ MainRead
    \/ MainOpsLockOps \/ MainOpsLockActs
    \/ MainEvalInit \/ MainEvalLoop \/ MainEvalFinish
    \/ MainOpsUnlockActs \/ MainOpsUnlockOps
    \/ MainPaintLock \/ MainPaint \/ MainPaintUnlock

SpecEval == Init /\ [][NextEval]_vars

\* C11 as stated: when the Quit key ends the process (the step that takes
\* an X event and leaves the process exited), the pipe is closed, both
\* producer threads have finished, and no rebuild is cut short.
C11_QuitTearsDown ==
    [][(proc = "running" /\ proc' = "exited" /\ nevents' = nevents + 1)
          => (fds' = "closed" /\ upc' = "done" /\ ppc' = "done" /\ est.res = "idle")]_vars

\* how many tokens of type t are among ops[1..k]
CountType(ops, k, t) == Cardinality({ i \in 1..k : ops[i].type = t })

\* the container depth after ops[1..k]: '{' tokens less '}' tokens
Depth(ops, k) == CountType(ops, k, "OP_OPEN") - CountType(ops, k, "OP_CLOSE")

\* the evaluation of built.ops got through its loop
EvalLooped == cpc = "eval_line" /\ est.res = "looped"

\* the evaluation of built.ops has completed
EvalDone == cpc = "ops_unlock_acts"

\* C12: the loop over a token sequence is got through only if no '}' comes
\* at depth 0, and the evaluation completes only if moreover the sequence
\* holds as many '{' as '}'.
C12_BraceBalance ==
    /\ (EvalLooped \/ EvalDone)
          => \A k \in 1..Len(built.ops) : Depth(built.ops, k) >= 0
    /\ EvalDone => Depth(built.ops, Len(built.ops)) = 0

\* a line with a container around a leaf has been evaluated
C12_Witness ==
    /\ EvalDone
    /\ CountType(built.ops, Len(built.ops), "OP_OPEN") = 1
    /\ ectx.n = 1

\* the token types for which eval_op returns an item
NodeTypes == {"OP_OPEN", "OP_IMG", "OP_RULE", "OP_MARKUP", "OP_TEXT"}

\* how many of ops[1..k] create a node
CountNodes(ops, k) == Cardinality({ i \in 1..k : ops[i].type \in NodeTypes })

\* the index in ops of the token that creates tree[j + 1]
NodeIdx(ops, j) ==
    CHOOSE i \in 1..Len(ops) : ops[i].type \in NodeTypes /\ CountNodes(ops, i) = j

\* whether a token of type t stands between the node-creating token before
\* ops[i] (or the start of the line) and ops[i]
InGap(ops, i, t) ==
    \E g \in 1..(i - 1) :
        /\ ops[g].type = t
        /\ \A h \in g..(i - 1) : ops[h].type \notin NodeTypes

\* whether a token of type t stands after the last node-creating token
Trailing(ops, t) == InGap(ops, Len(ops) + 1, t)

\* C13: grow, shrink, order and the click name are one-shot.  After the
\* loop over a line, a node with no ^grow between the node before it and
\* itself has grow 0 (a rule 10), with no ^shrink shrink 0, with no ^order
\* order 0, and a leaf with no ^ca has no click name; and a value not
\* staged again after the last node is back at 0 or unset.
C13_OneShot ==
    EvalLooped =>
        /\ \A j \in 1..(Len(est.tree) - 1) :
              LET i == NodeIdx(built.ops, j)
                  node == est.tree[j + 1]
              IN  /\ ~InGap(built.ops, i, "OP_GROW")
                        => node.grow = IF built.ops[i].type = "OP_RULE" THEN 10 ELSE 0
                  /\ ~InGap(built.ops, i, "OP_SHRINK") => node.shrink = 0
                  /\ ~InGap(built.ops, i, "OP_ORDER") => node.order = 0
        /\ \A k \in 1..ectx.n :
              ~InGap(built.ops, NodeIdx(built.ops, est.items[k] - 1), "OP_CA")
                  => ectx.b[k].ca_name = NULL
        /\ ~Trailing(built.ops, "OP_GROW") => est.state.grow = 0
        /\ ~Trailing(built.ops, "OP_SHRINK") => est.state.shrink = 0
        /\ ~Trailing(built.ops, "OP_ORDER") => est.state.order = 0
        /\ ~Trailing(built.ops, "OP_CA") => est.state.ca_name = NULL

\* staged grow and order went to the first of two leaves and not to the
\* second
C13_Witness ==
    /\ EvalLooped
    /\ Len(est.tree) = 3
    /\ Len(built.ops) = 4
    /\ built.ops[1].type = "OP_GROW"
    /\ built.ops[3].type = "OP_MARKUP"
    /\ est.tree[2].grow = 2 /\ est.tree[2].order = 3
    /\ est.tree[3].grow = 0 /\ est.tree[3].order = 0

\* C14 as stated: align-self is one-shot.  After the loop over a line, a
\* node with no ^align-self between the node before it and itself has
\* align-self auto, and with none after the last node the staged value is
\* auto again.
C14_AlignSelfOneShot ==
    EvalLooped =>
        /\ \A j \in 1..(Len(est.tree) - 1) :
              ~InGap(built.ops, NodeIdx(built.ops, j), "OP_ALIGN_SELF")
                  => est.tree[j + 1].align_self = "FLEX_ALIGN_AUTO"
        /\ ~Trailing(built.ops, "OP_ALIGN_SELF")
              => est.state.align_self = "FLEX_ALIGN_AUTO"

\* C15 as stated: basis is one-shot.  After the loop over a line, a node
\* with no ^basis between the node before it and itself has the default
\* basis, and with none after the last node the staged basis is the default
\* again.
C15_BasisOneShot ==
    EvalLooped =>
        /\ \A j \in 1..(Len(est.tree) - 1) :
              ~InGap(built.ops, NodeIdx(built.ops, j), "OP_BASIS")
                  => est.tree[j + 1].basis = NAN
        /\ ~Trailing(built.ops, "OP_BASIS") => est.state.basis = NAN

\* the argument of the last token of type t before ops[i], as <<arg>>, or
\* <<>> when there is none
LastArg(ops, i, t) ==
    LET S == { g \in 1..(i - 1) : ops[g].type = t }
    IN  IF S = {} THEN <<>>
        ELSE <<ops[CHOOSE g \in S : \A h \in S : h <= g].arg>>

\* the colour in force at ops[i] for the command type t, given the default
ColourAt(ops, i, t, default) ==
    IF LastArg(ops, i, t) = <<>> THEN default
    ELSE parse_color(LastArg(ops, i, t)[1]).c

\* C16: background, foreground and font are persistent within a line and
\* start every line at their defaults.  After the loop over a line, each
\* leaf has the background of the last ^bg before it in this line, else
\* black; each text and rule the foreground of the last ^fg, else white;
\* each text the font of the last ^font, else the default font; and every
\* node has margin and padding 0.
C16_PersistentStyle ==
    EvalLooped =>
        /\ \A k \in 1..ectx.n :
              LET i == NodeIdx(built.ops, est.items[k] - 1)
                  a == ectx.b[k]
              IN  /\ a.bg = ColourAt(built.ops, i, "OP_BG", <<0, 0, 0, 255>>)
                  /\ a.type \in {"ACT_TEXT", "ACT_RULE"}
                        => a.u.fg = ColourAt(built.ops, i, "OP_FG", <<255, 255, 255, 255>>)
                  /\ a.type = "ACT_TEXT"
                        => a.u.desc = IF LastArg(built.ops, i, "OP_FONT") = <<>>
                                      THEN <<"S", "a", "n", "s">>
                                      ELSE LastArg(built.ops, i, "OP_FONT")[1]
        /\ \A j \in 2..Len(est.tree) :
              est.tree[j].margin = 0 /\ est.tree[j].padding = 0

\* the line before was painted with a red background, and the leaf of the
\* plain line after it is evaluated with the default one
C16_Witness ==
    /\ EvalLooped
    /\ nlines = 2
    /\ Len(painted) >= 1
    /\ painted[1].bg = <<255, 0, 0, 255>>
    /\ ectx.n = 1
    /\ ectx.b[1].bg = <<0, 0, 0, 255>>

\* the indices that the button handler's loop reports for a press at (x, y)
Reported(x, y) ==
    LET r == HitLoop(ectx.b, ectx.n, 1, x, y)
    IN  { r[k] : k \in 1..Len(r) }

\* C17: a rule is never clickable.  The loop over a line is got through
\* only if no ^rule has a ^ca staged for it; no rule in the action list
\* carries a click name; and no press reports a rule.
C17_RuleNotClickable ==
    /\ (EvalLooped \/ EvalDone)
          => \A i \in 1..Len(built.ops) :
                built.ops[i].type = "OP_RULE" => ~InGap(built.ops, i, "OP_CA")
    /\ \A k \in 1..ectx.n :
          ectx.b[k].type = "ACT_RULE" => ectx.b[k].ca_name = NULL
    /\ \A x \in 0..InitWidth : \A y \in 0..1 :
          \A k \in Reported(x, y) : ectx.b[k].type # "ACT_RULE"

\* a line with a rule and a clickable text after it has been evaluated, and
\* a press on the rule reports nothing
C17_Witness ==
    /\ EvalDone
    /\ ectx.n = 2
    /\ ectx.b[1].type = "ACT_RULE"
    /\ ectx.b[2].ca_name # NULL
    /\ Reported(0, 0) = {}
    /\ Reported(1, 0) = {2}

\* a numeric argument that is a whole decimal number: one or more digits
WholeNumber(s) ==
    /\ Len(s) > 0
    /\ \A i \in 1..Len(s) : s[i] \in {"0","1","2","3","4","5","6","7","8","9"}

RECURSIVE NumberOf(_)
\* the value of a whole decimal number
NumberOf(s) ==
    IF Len(s) = 0 THEN 0
    ELSE 10 * NumberOf(SubSeq(s, 1, Len(s) - 1))
         + (CHOOSE d \in 0..9 : ToString(d) = s[Len(s)])

\* C18 as stated: a rule has grow 10 exactly when no ^grow is staged for
\* it, and with a ^grow staged (a whole number) it has exactly that value.
C18_RuleGrow ==
    EvalLooped =>
        \A j \in 1..(Len(est.tree) - 1) :
            LET i == NodeIdx(built.ops, j)
                g == LastArg(built.ops, i, "OP_GROW")
            IN  built.ops[i].type = "OP_RULE" =>
                  IF InGap(built.ops, i, "OP_GROW")
                  THEN WholeNumber(g[1]) => est.tree[j + 1].grow = NumberOf(g[1])
                  ELSE est.tree[j + 1].grow = 10

\* the commands whose argument is a number
NumericTypes ==
    {"OP_GROW", "OP_SHRINK", "OP_BASIS", "OP_ORDER",
     "OP_LINE_OFFSET", "OP_LINE_WIDTH", "OP_MITER_LIMIT"}

\* C19 as stated: the loop over a line is got through only if the whole
\* argument of every numeric command is a number (in the lines of the
\* model: one or more digits), so that no node takes a value from an
\* empty argument or from one with trailing characters.
C19_NumbersWhole ==
    (EvalLooped \/ EvalDone)
        => \A i \in 1..Len(built.ops) :
              built.ops[i].type \in NumericTypes => WholeNumber(built.ops[i].arg)

(***************************************************************************)
(* Lines at and over the size of parse_main's buffer.  SpecLong runs the   *)
(* producer and the consumer in X11 mode with no X events, on input lines  *)
(* whose lengths lie around MAX_LINE_LEN.                                  *)
(***************************************************************************)
RECURSIVE Repeat(_, _)
\* n times the character c
Repeat(c, n) == IF n <= 0 THEN <<>> ELSE Append(Repeat(c, n - 1), c)

\* a line of n characters, the newline included: a rule, then text
RuleLine(n) == <<"^","r","u","l","e","{","}">> \o Repeat("A", n - 8) \o <<NL>>

\* a line of more tokens than ops has elements, that fgets returns whole:
\* pairs of braces, and the text token of the newline
BraceLine == Repeat("{", (OpsCapacity + 1) \div 2) \o Repeat("}", (OpsCapacity + 1) \div 2) \o <<NL>>

\* lines two characters longer than fgets can return at once, of exactly
\* that length, and one shorter; and a short line
LongLines ==
    { RuleLine(MAX_LINE_LEN + 1), RuleLine(MAX_LINE_LEN - 1),
      RuleLine(MAX_LINE_LEN - 2), <<"B", NL>>, BraceLine }

\* buf holds the start of a line that fgets could not return whole
Fragment == Len(pbuf) = MAX_LINE_LEN /\ pbuf[MAX_LINE_LEN - 1] # NL

\* what the next fgets returns: the rest of the line that buf holds the
\* start of, or else a new line
Stdin ==
    IF Fragment
    THEN { SubSeq(l, MAX_LINE_LEN, Len(l)) :
             l \in { m \in LongLines :
                       /\ Len(m) > MAX_LINE_LEN - 1
                       /\ SubSeq(m, 1, MAX_LINE_LEN - 1) = SubSeq(pbuf, 1, MAX_LINE_LEN - 1) } }
    ELSE LongLines

ParseFgetsLong == nlines < MaxLines /\ Fgets(Stdin)

NextLong ==
    \/ ParseFgetsLong \/ ParseLock \/ ParseLoop \/ ParseUnlock \/ ParseWrite
    \/ MainRead
    \/ MainOpsLockOps \/ MainOpsLockActs
    \/ MainEvalInit \/ MainEvalLoop \/ MainEvalFinish
    \/ MainOpsUnlockActs \/ MainOpsUnlockOps
    \/ MainPaintLock \/ MainPaint \/ MainPaintUnlock

SpecLong == Init /\ [][NextLong]_vars

\* C20 as stated: once fgets has returned the start of an over-long line,
\* the process has exited: the producer neither takes the lock for it, nor
\* tokenizes it, nor writes an IPC_OPS message for it.
C20_LongLineFatal == Fragment => proc = "exited"

(***************************************************************************)
(* Hex colours.  SpecColor runs the producer and the consumer on one line  *)
(* `^bg{#h}A` for every string h of up to MaxHex hex digits.               *)
(***************************************************************************)
MaxHex == 8

\* the hex digits the lines are made of: a decimal digit, a lower-case
\* and an upper-case letter
ColourDigits == {"0", "a", "F"}

RECURSIVE HexStrings(_)
\* the strings of exactly n digits
HexStrings(n) ==
    IF n = 0 THEN { <<>> }
    ELSE { Append(h, d) : h \in HexStrings(n - 1), d \in ColourDigits }

ColourLines ==
    { <<"^","b","g","{","#">> \o h \o <<"}","A",NL>> :
        h \in UNION { HexStrings(n) : n \in 0..MaxHex } }

\* fgets() returning the one line of the input
ParseFgetsColour == nlines = 0 /\ Fgets(ColourLines)

NextColour ==
    \/ ParseFgetsColour \/ ParseLock \/ ParseLoop \/ ParseUnlock \/ ParseWrite
    \/ MainRead
    \/ MainOpsLockOps \/ MainOpsLockActs
    \/ MainEvalInit \/ MainEvalLoop \/ MainEvalFinish
    \/ MainOpsUnlockActs \/ MainOpsUnlockOps
    \/ MainPaintLock \/ MainPaint \/ MainPaintUnlock

SpecColour == Init /\ [][NextColour]_vars

\* the byte that the hex digits h[i], h[j] spell
HexByte(h, i, j) == 16 * HexVal(h[i]) + HexVal(h[j])

\* C21: hex colours.  The loop over `^bg{#h}A` is got through only if h
\* has 3, 6 or 8 digits; the leaf then has, for h = abc, the colour of
\* #aabbccff, for h = abcdef the colour of #abcdefff, and for 8 digits the
\* four bytes as written.
C21_HexColour ==
    EvalLooped =>
        LET h  == Tail(built.ops[1].arg)
            bg == ectx.b[1].bg
            ff == <<"f", "f">>
        IN  /\ Len(h) \in {3, 6, 8}
            /\ Len(h) = 3 =>
                  /\ bg = <<HexByte(h, 1, 1), HexByte(h, 2, 2), HexByte(h, 3, 3), 255>>
                  /\ bg = parse_color(<<"#", h[1], h[1], h[2], h[2], h[3], h[3]>> \o ff).c
            /\ Len(h) = 6 =>
                  /\ bg = <<HexByte(h, 1, 2), HexByte(h, 3, 4), HexByte(h, 5, 6), 255>>
                  /\ bg = parse_color(<<"#">> \o h \o ff).c
            /\ Len(h) = 8 =>
                  bg = <<HexByte(h, 1, 2), HexByte(h, 3, 4), HexByte(h, 5, 6), HexByte(h, 7, 8)>>

\* the leaf of `^bg{#a0F}A` has the colour aa 00 ff ff
C21_Witness ==
    /\ EvalLooped
    /\ built.ops[1].arg = <<"#", "a", "0", "F">>
    /\ ectx.b[1].bg = <<170, 0, 255, 255>>

\* C22: a rebuild is a function of the token buffer and the viewport.  The
\* Action List a completed rebuild leaves is the one eval_line yields from
\* the tokens and the size it started from, whatever was evaluated before;
\* so two rebuilds of the same tokens at the same size leave the same list.
C22_RebuildIdempotent ==
    EvalDone =>
        /\ ectx.n = Len(ectx.b)
        /\ ectx.b = eval_line(built.width, built.height, built.ops).b

\* the second of two rebuilds has left the list that the first one had
\* painted
C22_Witness ==
    /\ EvalDone
    /\ nlines = 2
    /\ ectx.n = 1
    /\ painted = ectx.b

(***************************************************************************)
(* The tokenizer on short lines.  SpecTok runs the producer and the        *)
(* consumer on one input line of up to MaxPieces pieces, ended by a        *)
(* newline or by the end of the input.                                     *)
(***************************************************************************)
TokPieces ==
    { <<"A">>, <<"{">>, <<"}">>,
      <<"^","b","g","{","r","e","d","}">>,
      <<"^","r","u","l","e","{","}">> }

RECURSIVE TokComposed(_)
\* the character sequences made of exactly n pieces
TokComposed(n) ==
    IF n = 0 THEN { <<>> }
    ELSE { s \o pc : s \in TokComposed(n - 1), pc \in TokPieces }

\* the lines fgets can return: with the newline, or without it when the
\* input ends there; fgets returns no empty string
\* the lines `{^dir{col}A B}` and `hello world`
NestingLine == <<"{","^","d","i","r","{","c","o","l","}","A"," ","B","}">>
HelloLine   == <<"h","e","l","l","o"," ","w","o","r","l","d">>

TokLines ==
    LET S == UNION { TokComposed(n) : n \in 0..MaxPieces } \cup {NestingLine, HelloLine}
    IN  { Append(s, NL) : s \in S } \cup (S \ { <<>> })

\* fgets() returning the one line of the input
ParseFgetsTok == nlines = 0 /\ Fgets(TokLines)

NextTok ==
    \/ ParseFgetsTok \/ ParseEof
    \/ ParseLock \/ ParseLoop \/ ParseUnlock \/ ParseWrite
    \/ MainRead
    \/ MainOpsLockOps \/ MainOpsLockActs
    \/ MainEvalInit \/ MainEvalLoop \/ MainEvalFinish
    \/ MainOpsUnlockActs \/ MainOpsUnlockOps
    \/ MainPaintLock \/ MainPaint \/ MainPaintUnlock

SpecTok == Init /\ [][NextTok]_vars

RECURSIVE AfterBrace(_, _)
\* the index after the first '}' of line from i on
AfterBrace(line, i) ==
    IF i > Len(line) THEN i
    ELSE IF line[i] = "}" THEN i + 1 ELSE AfterBrace(line, i + 1)

RECURSIVE Spans(_, _, _, _)
\* the maximal runs of text characters of line from i on, in order: a run
\* is ended by '{', '}', a command, the newline or the end of the line
Spans(line, i, run, acc) ==
    LET flush == IF run = <<>> THEN acc ELSE Append(acc, run)
    IN  IF i > Len(line) \/ line[i] = NL THEN flush
        ELSE IF line[i] \in {"{", "}"} THEN Spans(line, i + 1, <<>>, flush)
        ELSE IF line[i] = "^" THEN Spans(line, AfterBrace(line, i), <<>>, flush)
        ELSE Spans(line, i + 1, Append(run, line[i]), acc)

\* the contents of the Text tokens of ops that are not empty, in order
RECURSIVE Texts(_, _)
Texts(ops, i) ==
    IF i > Len(ops) THEN <<>>
    ELSE (IF ops[i].type = "OP_TEXT" /\ ops[i].arg # <<>> THEN <<ops[i].arg>> ELSE <<>>)
         \o Texts(ops, i + 1)

\* the producer has tokenized the line in buf
Tokenized == ppc \in {"unlock", "write"}

\* C23 as stated: once a line is tokenized, the contents of its Text
\* tokens are the maximal runs of text characters of the line, one token
\* for each run, in order: no run is dropped.
C23_EveryTextSpan ==
    Tokenized => Texts(SubSeq(pctx.ops, 1, pctx.n), 1) = Spans(tokenized[1], 1, <<>>, <<>>)

\* the tree indices of the containers: the nodes under the root that are
\* no action's item
Containers == { j \in 2..Len(est.tree) : \A k \in 1..ectx.n : est.items[k] # j }

\* the actions whose item has the parent j
LeavesUnder(j) == { k \in 1..ectx.n : est.tree[est.items[k]].parent = j }

\* the line being evaluated is `{^dir{col}A B}`, with or without a newline
Nesting == tokenized \in { <<NestingLine>>, <<Append(NestingLine, NL)>> }

\* the shape that is common to C24 as stated and as settled: the evaluation
\* does not fail, and after its loop there is one container, under the
\* root, with direction column, while the root's direction is row
NestingContainer ==
    /\ (Nesting /\ cpc = "eval_line") => proc = "running"
    /\ (Nesting /\ EvalLooped) =>
          /\ Containers = {2}
          /\ est.tree[2].parent = 1
          /\ est.tree[2].direction = "FLEX_DIRECTION_COLUMN"
          /\ est.tree[1].direction = "FLEX_DIRECTION_ROW"

\* C24 as stated: for `{^dir{col}A B}` the container has exactly two Text
\* leaves as its children, and the tree has no other leaf.
C24_NestingTwoLeaves ==
    /\ NestingContainer
    /\ (Nesting /\ EvalLooped) =>
          /\ Cardinality(LeavesUnder(2)) = 2
          /\ \A k \in LeavesUnder(2) : ectx.b[k].type = "ACT_TEXT"
          /\ ectx.n = 2

\* C24 as settled: for `{^dir{col}A B}` the container has exactly one child,
\* the Text leaf `A B`; when the line ends with a newline the tree has one
\* more leaf, an empty Text under the root, and otherwise no other leaf.
C24_NestingOneLeaf ==
    /\ NestingContainer
    /\ (Nesting /\ EvalLooped) =>
          /\ LeavesUnder(2) = {1}
          /\ ectx.b[1].type = "ACT_TEXT"
          /\ ectx.b[1].u.s = <<"A", " ", "B">>
          /\ IF tokenized[1][Len(tokenized[1])] = NL
             THEN /\ ectx.n = 2
                  /\ LeavesUnder(1) = {2}
                  /\ ectx.b[2].type = "ACT_TEXT"
                  /\ ectx.b[2].u.s = <<>>
             ELSE ectx.n = 1

\* the loop over `{^dir{col}A B}` and its newline has been got through
C24_Witness ==
    /\ EvalLooped
    /\ tokenized = <<Append(NestingLine, NL)>>
    /\ Len(est.tree) = 4

\* the token types that create a leaf
ContentTypes == {"OP_IMG", "OP_RULE", "OP_MARKUP", "OP_TEXT"}

\* the index in ops of the k-th token that creates a leaf
ContentIdx(ops, k) ==
    CHOOSE i \in 1..Len(ops) :
        /\ ops[i].type \in ContentTypes
        /\ Cardinality({ g \in 1..i : ops[g].type \in ContentTypes }) = k

\* the click name staged at ops[i]: that of the last ^ca since the node
\* before, or none
ClickAt(ops, i) ==
    IF InGap(ops, i, "OP_CA") THEN LastArg(ops, i, "OP_CA") ELSE NULL

\* C25: after the loop over a token buffer the Action List holds one
\* Action for each content token, in token order, and none for any other
\* token: the k-th Action has the kind (and, for text, the content) of the
\* k-th content token, the background set by the last ^bg before it, and
\* the click name staged for it.
C25_OneActionPerContentToken ==
    EvalLooped =>
        /\ ectx.n = Cardinality({ i \in 1..Len(built.ops) : built.ops[i].type \in ContentTypes })
        /\ Len(ectx.b) = ectx.n
        /\ \A k \in 1..ectx.n :
              LET i == ContentIdx(built.ops, k)
                  t == built.ops[i].type
                  a == ectx.b[k]
              IN  /\ a.type = CASE t = "OP_RULE" -> "ACT_RULE"
                                [] t = "OP_IMG"  -> "ACT_IMG"
                                [] OTHER         -> "ACT_TEXT"
                  /\ a.type = "ACT_TEXT" => a.u.s = built.ops[i].arg
                  /\ a.bg = ColourAt(built.ops, i, "OP_BG", <<0, 0, 0, 255>>)
                  /\ a.ca_name = ClickAt(built.ops, i)

\* a rule, then a markup with a click name staged, then a text: three
\* Actions in that order
C25_Witness ==
    /\ EvalLooped
    /\ ectx.n = 3
    /\ ectx.b[1].type = "ACT_RULE"
    /\ ectx.b[2].type = "ACT_TEXT"
    /\ ectx.b[2].u.f = "pango_layout_set_markup"
    /\ ectx.b[2].ca_name # NULL
    /\ ectx.b[3].type = "ACT_TEXT"
    /\ ectx.b[3].u.f = "pango_layout_set_text"
    /\ ectx.b[3].ca_name = NULL

\* the staged value of the command type t at ops[i], when its argument is
\* a whole number
StagedNumber(ops, i, t) == NumberOf(LastArg(ops, i, t)[1])

\* a whole-number command of type t is staged for ops[i]
StagedWhole(ops, i, t) == InGap(ops, i, t) /\ WholeNumber(LastArg(ops, i, t)[1])

\* C26: a container is a sized node.  After the loop over a line, every
\* node made by an Open has a width; it has the grow and the shrink staged
\* for it; and the node after it, unless a value is staged anew, has
\* shrink 0 and grow 0 (a rule 10), and as a leaf no click name.
C26_OpenConsumes ==
    EvalLooped =>
        \A j \in 1..(Len(est.tree) - 1) :
            LET i == NodeIdx(built.ops, j)
            IN  built.ops[i].type = "OP_OPEN" =>
                  /\ est.tree[j + 1].width # NAN
                  /\ StagedWhole(built.ops, i, "OP_GROW")
                        => est.tree[j + 1].grow = StagedNumber(built.ops, i, "OP_GROW")
                  /\ StagedWhole(built.ops, i, "OP_SHRINK")
                        => est.tree[j + 1].shrink = StagedNumber(built.ops, i, "OP_SHRINK")
                  /\ j + 2 <= Len(est.tree) =>
                        LET n == NodeIdx(built.ops, j + 1)
                        IN  /\ ~InGap(built.ops, n, "OP_GROW")
                                  => est.tree[j + 2].grow =
                                        IF built.ops[n].type = "OP_RULE" THEN 10 ELSE 0
                            /\ ~InGap(built.ops, n, "OP_SHRINK")
                                  => est.tree[j + 2].shrink = 0
                            /\ ~InGap(built.ops, n, "OP_CA")
                                  => \A k \in 1..ectx.n :
                                        est.items[k] = j + 2 => ectx.b[k].ca_name = NULL

\* shrink 4 and a click name were staged before an Open: the container has
\* shrink 4, the text inside it shrink 0 and no click name
C26_Witness ==
    /\ EvalLooped
    /\ Len(built.ops) = 4
    /\ built.ops[2].type = "OP_CA"
    /\ built.ops[3].type = "OP_OPEN"
    /\ est.tree[2].shrink = 4
    /\ est.tree[3].shrink = 0
    /\ ectx.n = 1
    /\ ectx.b[1].ca_name = NULL

\* C27 as stated: once a line is tokenized, no Text token of it has empty
\* content.
C27_NoEmptyText ==
    Tokenized =>
        \A i \in 1..pctx.n :
            pctx.ops[i].type = "OP_TEXT" => pctx.ops[i].arg # <<>>

\* C28 as stated: the number of tokens stored for a line never exceeds the
\* number of elements of ops, and the number of Actions of a rebuild never
\* exceeds the number of elements of b.
C28_WithinArrays == pctx.n <= OpsCapacity /\ ectx.n <= ActsCapacity

\* the tag bytes of the four messages
Tags == {IPC_BUTTON, IPC_RESIZE, IPC_OPS, IPC_PAINT}

RECURSIVE Framed(_)
\* the bytes q are whole frames: a tag, the payload bytes of that tag, and
\* whole frames again
Framed(q) ==
    \/ q = <<>>
    \/ /\ Head(q) \in Tags
       /\ Len(q) >= 1 + PayloadLen(Head(q))
       /\ Framed(SubSeq(q, 2 + PayloadLen(Head(q)), Len(q)))

\* C29: with both producers writing, the pipe always holds whole frames,
\* so that the byte the consumer reads next as a tag is a tag, and the byte
\* it has last read as a tag was one.
C29_Framing ==
    /\ Framed(pipe)
    /\ cur.tag \in Tags \cup {0}

\* while a handler runs, a button frame of ui_main waits on the pipe with
\* a frame of parse_main behind it
C29_Witness ==
    /\ Handling
    /\ Len(pipe) > 1 + PayloadLen(IPC_BUTTON)
    /\ Head(pipe) = IPC_BUTTON
    /\ pipe[2 + PayloadLen(IPC_BUTTON)] = IPC_OPS

(***************************************************************************)
(* File output (-o): main runs parse_main itself with pctx.fd = -1, then   *)
(* eval_line and paint once, and exits.  No thread is started and the pipe *)
(* is never written; main stays at the start of its work, cpc = "read",    *)
(* until parse_main has returned.                                          *)
(***************************************************************************)
\* the input lines of the file mode: a text, a container between texts, an
\* unbalanced brace, an unknown command, and a text without a newline
FileLines ==
    { <<"A", NL>>,
      <<"A", "{", "B", "}", NL>>,
      <<"{", NL>>,
      <<"^", "x", "{", "}", NL>>,
      <<"C">> }

ParseFgetsFile == nlines < MaxLines /\ Fgets(FileLines)

\* if (pctx->fd == -1) continue;
ParseContinue ==
    /\ proc = "running" /\ ppc = "write"
    /\ ppc' = "fgets"
    /\ UNCHANGED <<proc, mutex_ops, mutex_acts, pipe, fds, pctx, pbuf, nlines,
                   uiVars, mainVars, histVars>>

\* parse_main(&pctx) has returned: eval_line(&ectx, width, height, pctx.ops, pctx.n)
FileEval ==
    /\ proc = "running" /\ ppc = "done" /\ cpc = "read"
    /\ built' = [width |-> width, height |-> height, ops |-> SubSeq(pctx.ops, 1, pctx.n)]
    /\ \E ev \in { eval_line(width, height, SubSeq(pctx.ops, 1, pctx.n)) } :
          IF ev.res = "exit"
          THEN /\ proc' = "exited"
               /\ UNCHANGED <<cpc, ectx>>
          ELSE /\ ectx' = [b |-> ev.b, n |-> Len(ev.b)]
               /\ cpc' = "file_paint"
               /\ UNCHANGED proc
    /\ UNCHANGED <<mutex_ops, mutex_acts, pipe, fds, pctx, parseVars, uiVars,
                   cur, width, height, est, reports, painted,
                   tokenized, reported, written, running, paintedIn>>

\* paint(cr, ectx.b, ectx.n); the surface is written out; exit(0);
FilePaint ==
    /\ proc = "running" /\ cpc = "file_paint"
    /\ painted' = paint(ectx.b, ectx.n)
    /\ cpc' = "file_done"
    /\ proc' = "exited"
    /\ UNCHANGED <<mutex_ops, mutex_acts, pipe, fds, pctx, parseVars, uiVars,
                   cur, width, height, ectx, est, reports, histVars>>

NextFile ==
    \/ ParseFgetsFile \/ ParseEof
    \/ ParseLock \/ ParseLoop \/ ParseUnlock \/ ParseContinue
    \/ FileEval \/ FilePaint

\* main is one thread and the input ends: it always takes its next step
SpecFile == Init /\ [][NextFile]_vars /\ WF_vars(NextFile)

\* no message is ever posted; nothing is evaluated or painted before the
\* end of the input; what is evaluated are the tokens of the last line
\* read, and what is painted is the result of that evaluation
FileInv ==
    /\ pipe = <<>> /\ written = <<>>
    /\ cpc = "read" =>
          /\ ectx.n = 0 /\ painted = <<>>
          /\ proc = "running" => built.ops = <<>>
    /\ cpc \in {"file_paint", "file_done"} =>
          /\ ppc = "done"
          /\ built.ops = LastTokens
          /\ ectx.n = Len(ectx.b)
          /\ ectx.b = eval_line(width, height, LastTokens).b
          /\ nlines = 0 => LastTokens = <<>> /\ ectx.n = 0
    /\ cpc = "file_paint" => painted = <<>>
    /\ cpc = "file_done" => painted = paint(ectx.b, ectx.n) /\ proc = "exited"

\* main goes from the end of the input to the evaluation and from there to
\* the paint, and only these two steps evaluate and paint; an evaluation
\* that ends in exit(1) leaves main where it was
FileStep ==
    /\ cpc' # cpc =>
          \/ cpc = "read" /\ cpc' = "file_paint"
          \/ cpc = "file_paint" /\ cpc' = "file_done"
    /\ ectx' # ectx => cpc = "read" /\ cpc' = "file_paint"
    /\ built' # built => cpc = "read" /\ ppc = "done" /\ built'.ops = LastTokens
    /\ painted' # painted => cpc = "file_paint" /\ cpc' = "file_done"

\* C30: in file mode no message is posted and each line replaces the
\* tokens of the line before; one evaluation, of the tokens of the last
\* line read (of no token when there was no line), and then one paint of
\* its Actions are done, and the process exits.
C30_FileMode == []FileInv /\ [][FileStep]_vars /\ <>(proc = "exited")

\* two lines were read, and the three Actions of the second are painted
C30_Witness ==
    /\ cpc = "file_done"
    /\ nlines = 2
    /\ Len(built.ops) = 5
    /\ Len(painted) = 3

====
